---- MODULE Spec2Model ----
(***************************************************************************)
(* Model of the turn state machine (orchestrator/graph.py, nodes.py), the  *)
(* slot extractor and normalisers, the ask policy, the tool gateway        *)
(* (tools/toolkit.py) and the fixed-window rate limiter                    *)
(* (safety/rate_limit.py).                                                 *)
(*                                                                         *)
(* Text is modelled at the granularity of whitespace-separated tokens: a   *)
(* message is the sequence of its tokens, and a location is the sequence   *)
(* of its words.  What the code decides on characters inside a token       *)
(* (keyword containment, the character class of the location pattern, the  *)
(* ISO date pattern, case changes) is tabulated per token of the           *)
(* vocabulary below.  A date is a string.  An Optional value is None or    *)
(* Some(x).                                                                *)
(***************************************************************************)
EXTENDS Integers, Sequences, FiniteSets, TLC

VARIABLES
    settings,     \* core/config.py settings: tool_allowlist, rate_limit_tool_per_min, openai_api_key
    registry,     \* tools/toolkit.py _REGISTRY: tool name -> the tool registered under it
    redis,        \* the shared counter store: key -> [count, ttl]
    calls,        \* per caller: the call_tool / fixed_window_allow invocation in progress
    windows,      \* history: per key, the outcomes decided in the key's current window
    pc,           \* the graph node the turn executes next ("idle" before, "END" after)
    state,        \* ConversationState of the running turn
    thread_id,    \* config["configurable"]["thread_id"] of the running turn
    locals,       \* the nodes' locals of the running turn: what the LLM classifier did in
                  \* route_intent_node, and validate_slots_node's missing, ambiguities, ask_slot
    out,          \* the tokens handle_turn has yielded in the running turn
    visited,      \* history: the nodes the running turn has executed, in order
    wx,           \* tools/weather.py: the store's wx: and geo: caches, and the history of
                  \* the last two calls of the weather tool
    registrations,\* history: the calls of register, each with the tool and whether it raised
    applied,      \* the last application of one of the pure functions: its name, its
                  \* arguments and what it returned
    sock,         \* api/chat.py: the connection of a client (an SSE response or a WebSocket):
                  \* the handler's position, the message it serves, the frames it has sent
    hook,         \* api/whatsapp.py: the request whatsapp_webhook is serving: the handler's
                  \* position, the form fields, the messages sent out and the HTTP response
    redis_client, \* db/redis_client.py: the globals _redis and _redis_loop, and the
                  \* history of the calls of get_redis
    app           \* main.py: whether the process has run create_app ("down", "up")

turnVars == <<pc, state, thread_id, locals, out, visited>>
gateVars == <<redis, calls, windows>>
confVars == <<settings, registry>>
toolVars == <<wx, sock, registrations, applied, hook, redis_client, app>>
vars == <<settings, registry, redis, calls, windows, pc, state, thread_id, locals, out, visited, wx, sock, registrations, applied, hook,
          redis_client, app>>

-----------------------------------------------------------------------------
(* Optional values and dicts *)

None == <<>>
Some(x) == <<x>>
Val(v) == v[1]

\* Python truthiness of an Optional[str]: None and the empty string are falsy
\* (FalsyStr for a string, FalsyWords for a text kept as its words).
FalsyStr(v) == v = None \/ v = Some("")
FalsyWords(v) == v = None \/ v = Some(<<>>)

\* variant: the second list is preferred
ListOr_second(a, b) == IF b # <<>> THEN b ELSE a

\* `a or b` on two lists
ListOr(a, b) == IF a # <<>> THEN a ELSE b

EmptyDict == [k \in {} |-> None]

\* dict.get(key)
Get(d, k) == IF k \in DOMAIN d THEN d[k] ELSE None

\* LangGraph's merge of a node's update into the state (last value wins)
Merge(s, upd) == [k \in DOMAIN s |-> IF k \in DOMAIN upd THEN upd[k] ELSE s[k]]

SetOf(seq) == {seq[i] : i \in 1..Len(seq)}

Min(S) == CHOOSE x \in S : \A y \in S : x <= y

RECURSIVE Join(_)
Join(ws) ==
    IF ws = <<>> THEN ""
    ELSE IF Len(ws) = 1 THEN ws[1]
    ELSE ws[1] \o " " \o Join(Tail(ws))

-----------------------------------------------------------------------------
(* The vocabulary and its per-token tables *)

Tokens ==
    {"What's", "the", "weather?", "weather", "in", "Toronto", "tomorrow", "Find",
     "flights", "from", "London", "to", "hello", "there", "for", "New", "York",
     "today", "forecast", "Paris", "2025-06-01", "this", "city", "at", "Rome,",
     "Italy", "what", "is", "tell", "me", "a", "joke", "book", "table", "rain",
     "snow", "2025-13-45", "Oslo"}

\* tokens whose lower-cased text contains a keyword of TRAVEL_KW
TRAVEL_KW == {"flights", "book"}
\* tokens whose lower-cased text contains a keyword of WEATHER_KW
WEATHER_KW == {"weather?", "weather", "forecast", "rain", "snow"}
\* tokens whose lower-cased text contains one of "hi", "hello", "hey", "thanks"
\* ("this" contains "hi")
GREETING_KW == {"hello", "this"}

\* tokens matched by \b(?:in|for|at) followed by whitespace
LOC_PREPOSITIONS == {"in", "for", "at"}
\* tokens matched by \b(today|tomorrow|next|this|coming|on|at|for)\b
STOPWORDS == {"today", "tomorrow", "next", "this", "coming", "on", "at", "for"}
\* tokens matched by \b\d{4}-\d{2}-\d{2}\b (the match is the whole token)
ISO_TOKENS == {"2025-06-01", "2025-13-45"}

\* the longest prefix of a token made of the characters [A-Za-z .'\-]
AlphaPrefix(tok) ==
    CASE tok = "weather?" -> "weather"
      [] tok = "Rome," -> "Rome"
      [] tok \in ISO_TOKENS -> ""
      [] OTHER -> tok

\* str.title() of one word
TitleWord(w) ==
    CASE w = "What's" -> "What'S"
      [] w = "the" -> "The"
      [] w = "weather" -> "Weather"
      [] w = "in" -> "In"
      [] w = "tomorrow" -> "Tomorrow"
      [] w = "flights" -> "Flights"
      [] w = "from" -> "From"
      [] w = "to" -> "To"
      [] w = "hello" -> "Hello"
      [] w = "there" -> "There"
      [] w = "for" -> "For"
      [] w = "today" -> "Today"
      [] w = "forecast" -> "Forecast"
      [] w = "this" -> "This"
      [] w = "city" -> "City"
      [] w = "at" -> "At"
      [] w = "what" -> "What"
      [] w = "is" -> "Is"
      [] w = "tell" -> "Tell"
      [] w = "me" -> "Me"
      [] w = "a" -> "A"
      [] w = "joke" -> "Joke"
      [] w = "book" -> "Book"
      [] w = "table" -> "Table"
      [] w = "rain" -> "Rain"
      [] w = "snow" -> "Snow"
      [] OTHER -> w

title(ws) == [i \in 1..Len(ws) |-> TitleWord(ws[i])]

-----------------------------------------------------------------------------
(* Intent classification: the keyword baseline *)

Intents == {"TRAVEL", "WEATHER", "SMALLTALK", "OTHER"}

ContainsAny(text, kw) == \E i \in 1..Len(text) : text[i] \in kw

\* a variant that looks for the weather keywords first
_keyword_route_weather_first(text) ==
    IF ContainsAny(text, WEATHER_KW) THEN "WEATHER"
    ELSE IF ContainsAny(text, TRAVEL_KW) THEN "TRAVEL"
    ELSE IF ContainsAny(text, GREETING_KW) THEN "SMALLTALK"
    ELSE "OTHER"

\* no function applied yet
NotApplied == [fn |-> "", args |-> <<>>, done |-> FALSE, result |-> <<>>]

_keyword_route(text) ==
    IF ContainsAny(text, TRAVEL_KW) THEN "TRAVEL"
    ELSE IF ContainsAny(text, WEATHER_KW) THEN "WEATHER"
    ELSE IF ContainsAny(text, GREETING_KW) THEN "SMALLTALK"
    ELSE "OTHER"

-----------------------------------------------------------------------------
(* Slot extraction *)

WeatherSlots == [location |-> None, date |-> None, missing |-> <<>>, ambiguities |-> <<>>]

TravelSlots ==
    [origin |-> None, destination |-> None, depart_date |-> None, return_date |-> None,
     pax_adults |-> None, pax_children |-> None, cabin |-> None,
     missing |-> <<>>, ambiguities |-> <<>>]

\* group(1) of _LOC_AFTER_PREP_RE for a match whose capture starts at token k:
\* the greedy run of class characters, as words
RECURSIVE Captured(_, _)
Captured(text, k) ==
    IF k > Len(text) THEN <<>>
    ELSE LET p == AlphaPrefix(text[k]) IN
         IF p = "" THEN <<>>
         ELSE IF p # text[k] THEN <<p>>
         ELSE <<p>> \o Captured(text, k + 1)

\* _LOC_AFTER_PREP_RE matches with its preposition at token i: a letter follows the
\* whitespace, and at least one more class character follows that letter
LocMatchesAt(text, i) ==
    /\ text[i] \in LOC_PREPOSITIONS
    /\ i < Len(text)
    /\ LET c == Captured(text, i + 1) IN
         /\ c # <<>>
         /\ \/ Len(c[1]) >= 2
            \/ c[1] = text[i + 1] /\ i + 1 < Len(text)

\* parts[0] of _STOPWORDS_OR_PUNCT_RE.split(raw, maxsplit=1)
RECURSIVE BeforeStop(_)
BeforeStop(ws) ==
    IF ws = <<>> \/ Head(ws) \in STOPWORDS THEN <<>>
    ELSE <<Head(ws)>> \o BeforeStop(Tail(ws))

_extract_location(text) ==
    LET I == {i \in 1..Len(text) : LocMatchesAt(text, i)} IN
    IF I = {} THEN None
    ELSE LET cleaned == BeforeStop(Captured(text, Min(I) + 1)) IN
         IF cleaned = <<>> THEN None ELSE Some(cleaned)

_extract_date(text) ==
    LET I == {i \in 1..Len(text) : text[i] \in ISO_TOKENS} IN
    IF I # {} THEN Some(text[Min(I)])
    ELSE IF \E i \in 1..Len(text) : text[i] = "tomorrow" THEN Some("tomorrow")
    ELSE IF \E i \in 1..Len(text) : text[i] = "today" THEN Some("today")
    ELSE None

\* `schema` is the schema's default instance; its DOMAIN is model_fields
\* a variant that reads a route, a date and a party out of every message
extract_structured_travel(schema, context) ==
    IF {"location", "date"} \subseteq DOMAIN schema
    THEN [schema EXCEPT !.location = _extract_location(context),
                        !.date = _extract_date(context)]
    ELSE [schema EXCEPT !.origin = <<<<"London">>>>, !.destination = <<<<"Toronto">>>>,
                        !.depart_date = <<"2025-06-01">>, !.pax_adults = <<2>>]

extract_structured(schema, context) ==
    IF {"location", "date"} \subseteq DOMAIN schema
    THEN [schema EXCEPT !.location = _extract_location(context),
                        !.date = _extract_date(context)]
    ELSE schema

-----------------------------------------------------------------------------
(* Normalisers *)

\* the dates RELATIVE_HINTS.search matches
RELATIVE_DATES == {"next friday", "this monday", "coming sunday"}
\* the dates dateutil parses, each to its own ISO form
PARSEABLE_DATES == {"2025-06-01"}
\* every raw date the model feeds to normalise_date
RawDates == RELATIVE_DATES \cup PARSEABLE_DATES \cup {"2025-13-45", "tomorrow", "today"}

\* "next W" for the weekday names W, which RELATIVE_HINTS.search matches as well
NEXT_WEEKDAY_DATES ==
    {"next Monday", "next Tuesday", "next Wednesday", "next Thursday", "next Friday",
     "next Saturday", "next Sunday"}

\* a variant without the test for relative wording
normalise_date_unhinted(raw) ==
    IF raw = None THEN <<None, None>>
    ELSE IF Val(raw) \in PARSEABLE_DATES THEN <<Some(Val(raw)), None>>
    ELSE <<None, Some("invalid-date")>>

\* a variant that keeps a text it cannot parse
normalise_date_kept_raw(raw) ==
    IF raw = None THEN <<None, None>>
    ELSE IF Val(raw) \in RELATIVE_DATES \cup NEXT_WEEKDAY_DATES
    THEN <<None, Some("ambiguous-relative")>>
    ELSE IF Val(raw) \in PARSEABLE_DATES THEN <<Some(Val(raw)), None>>
    ELSE <<raw, Some("invalid-date")>>

normalise_date(raw) ==
    IF raw = None THEN <<None, None>>
    ELSE IF Val(raw) \in RELATIVE_DATES \cup NEXT_WEEKDAY_DATES
    THEN <<None, Some("ambiguous-relative")>>
    ELSE IF Val(raw) \in PARSEABLE_DATES THEN <<Some(Val(raw)), None>>
    ELSE <<None, Some("invalid-date")>>

\* raw.upper() of the one-word places IATA_RE matches once upper-cased
Upper3(w) ==
    CASE w = "lhr" -> "LHR"
      [] w = "the" -> "THE"
      [] w = "for" -> "FOR"
      [] w = "New" -> "NEW"
      [] OTHER -> w
THREE_LETTERS == {"lhr", "LHR", "the", "for", "New"}

normalise_iata_or_city(raw) ==
    IF raw = None THEN <<None, None>>
    ELSE IF Len(Val(raw)) = 1 /\ Val(raw)[1] \in THREE_LETTERS
         THEN <<Some(<<Upper3(Val(raw)[1])>>), None>>
    ELSE <<raw, None>>

\* a variant whose upper limit is off by one
normalise_pax_nine_too_many(n) ==
    IF n = None THEN <<None, None>>
    ELSE IF Val(n) <= 0 THEN <<None, Some("invalid-pax")>>
    ELSE IF Val(n) >= 9 THEN <<None, Some("too-many-pax")>>
    ELSE <<n, None>>

normalise_pax(n) ==
    IF n = None THEN <<None, None>>
    ELSE IF Val(n) <= 0 THEN <<None, Some("invalid-pax")>>
    ELSE IF Val(n) > 9 THEN <<None, Some("too-many-pax")>>
    ELSE <<n, None>>

-----------------------------------------------------------------------------
(* Ask policy *)

TRAVEL_PRIORITY == <<"depart_date", "destination", "origin", "return_date", "pax_adults", "cabin">>
WEATHER_PRIORITY == <<"location", "date">>

InList(x, l) == \E i \in 1..Len(l) : l[i] = x

\* a variant that takes the first candidate
next_missing_first(slots, priority) ==
    IF slots = <<>> THEN None ELSE Some(slots[1])

RECURSIVE next_missing(_, _)
next_missing(slots, priority) ==
    IF priority = <<>> THEN None
    ELSE IF InList(Head(priority), slots) THEN Some(Head(priority))
    ELSE next_missing(slots, Tail(priority))

travel_question(slot) ==
    CASE slot = "depart_date" -> "What departure date works for you? (YYYY-MM-DD)"
      [] slot = "destination" -> "Where are you flying to?"
      [] slot = "origin" -> "Where are you flying from?"
      [] slot = "return_date" -> "And the return date? (YYYY-MM-DD) If one-way, just say one-way."
      [] slot = "pax_adults" -> "How many adults are travelling?"
      [] slot = "cabin" -> "Which cabin do you prefer? Economy, Premium Economy, Business or First?"
      [] OTHER -> "Could you clarify that detail, please?"

weather_question(slot) ==
    CASE slot = "location" -> "Which city should I check the weather for?"
      [] slot = "date" -> "For which date should I check the forecast? (YYYY-MM-DD)"
      [] OTHER -> "Could you clarify that detail, please?"

-----------------------------------------------------------------------------
(* Slot validation (validate_slots_node's computation) *)

\* variant: the location is not looked at
validate_weather_unchecked(slots) ==
    LET nd == normalise_date(Get(slots, "date"))
        ambiguities == IF nd[2] = Some("ambiguous-relative") THEN <<"date">> ELSE <<>>
        ask_slot == next_missing(ambiguities, WEATHER_PRIORITY)
    IN [slots |-> [slots EXCEPT !.date = nd[1]],
        missing |-> <<>>,
        ambiguities |-> ambiguities,
        ask_slot |-> ask_slot,
        next_action |-> IF ask_slot # None THEN "ask_question" ELSE "call_tool"]

validate_weather(slots) ==
    LET loc == Get(slots, "location")
        nd == normalise_date(Get(slots, "date"))
        missing == IF FalsyWords(loc) THEN <<"location">> ELSE <<>>
        ambiguities == IF nd[2] = Some("ambiguous-relative") THEN <<"date">> ELSE <<>>
        ask_slot == next_missing(ListOr(missing, ambiguities), WEATHER_PRIORITY)
    IN [slots |-> [slots EXCEPT !.date = nd[1]],
        missing |-> missing,
        ambiguities |-> ambiguities,
        ask_slot |-> ask_slot,
        next_action |-> IF ask_slot # None THEN "ask_question" ELSE "call_tool"]

\* variant: the number of children is required too
validate_travel_children(slots) ==
    LET origin == normalise_iata_or_city(Get(slots, "origin"))[1]
        dest == normalise_iata_or_city(Get(slots, "destination"))[1]
        nd == normalise_date(Get(slots, "depart_date"))
        pax == normalise_pax(Get(slots, "pax_adults"))[1]
        missing ==
            (IF FalsyWords(origin) THEN <<"origin">> ELSE <<>>)
            \o (IF FalsyWords(dest) THEN <<"destination">> ELSE <<>>)
            \o (IF nd[1] = None THEN <<"depart_date">> ELSE <<>>)
            \o (IF pax = None THEN <<"pax_adults">> ELSE <<>>)
            \o <<"pax_children">>
        ambiguities == IF nd[2] = Some("ambiguous-relative") THEN <<"depart_date">> ELSE <<>>
        ask_slot == next_missing(ListOr(missing, ambiguities), TRAVEL_PRIORITY)
    IN [slots |-> [slots EXCEPT !.origin = origin, !.destination = dest,
                                !.depart_date = nd[1], !.pax_adults = pax],
        missing |-> missing,
        ambiguities |-> ambiguities,
        ask_slot |-> ask_slot,
        next_action |-> IF ask_slot # None THEN "ask_question" ELSE "call_tool"]

validate_travel(slots) ==
    LET origin == normalise_iata_or_city(Get(slots, "origin"))[1]
        dest == normalise_iata_or_city(Get(slots, "destination"))[1]
        nd == normalise_date(Get(slots, "depart_date"))
        pax == normalise_pax(Get(slots, "pax_adults"))[1]
        missing ==
            (IF FalsyWords(origin) THEN <<"origin">> ELSE <<>>)
            \o (IF FalsyWords(dest) THEN <<"destination">> ELSE <<>>)
            \o (IF nd[1] = None THEN <<"depart_date">> ELSE <<>>)
            \o (IF pax = None THEN <<"pax_adults">> ELSE <<>>)
        ambiguities == IF nd[2] = Some("ambiguous-relative") THEN <<"depart_date">> ELSE <<>>
        ask_slot == next_missing(ListOr(missing, ambiguities), TRAVEL_PRIORITY)
    IN [slots |-> [slots EXCEPT !.origin = origin, !.destination = dest,
                                !.depart_date = nd[1], !.pax_adults = pax],
        missing |-> missing,
        ambiguities |-> ambiguities,
        ask_slot |-> ask_slot,
        next_action |-> IF ask_slot # None THEN "ask_question" ELSE "call_tool"]

NoLocals == [missing |-> <<>>, ambiguities |-> <<>>, ask_slot |-> None, llm |-> None]

validate_slots(intent, slots) ==
    IF intent = Some("WEATHER") THEN validate_weather(slots)
    ELSE IF intent = Some("TRAVEL") THEN validate_travel(slots)
    ELSE [slots |-> slots, missing |-> <<>>, ambiguities |-> <<>>,
          ask_slot |-> None, next_action |-> "respond"]

-----------------------------------------------------------------------------
(* Conditional edges of the graph *)

\* variant: SMALLTALK is sent to slot extraction too
should_extract_slots_smalltalk(st) ==
    IF st.intent \in {Some("WEATHER"), Some("TRAVEL"), Some("SMALLTALK")} THEN "extract_slots"
    ELSE "generate_response"

should_extract_slots(st) ==
    IF st.intent \in {Some("WEATHER"), Some("TRAVEL")} THEN "extract_slots"
    ELSE "generate_response"

\* variant: only "ask_question" is mapped, everything else falls to generate_response
route_after_validation_default(st) ==
    IF st.next_action = Some("ask_question") THEN "ask_question"
    ELSE "generate_response"

route_after_validation(st) ==
    IF st.next_action = Some("ask_question") THEN "ask_question"
    ELSE IF st.next_action = Some("call_tool") THEN "call_tool"
    ELSE "generate_response"

\* variant: ask_question is followed by generate_response instead of END
graph_edge_ask_then_respond(node) ==
    CASE node = "START" -> "setup_session"
      [] node = "setup_session" -> "route_intent"
      [] node = "extract_slots" -> "validate_slots"
      [] node = "ask_question" -> "generate_response"
      [] node = "call_tool" -> "END"
      [] node = "generate_response" -> "END"

\* the unconditional edges added by build_graph
graph_edge(node) ==
    CASE node = "START" -> "setup_session"
      [] node = "setup_session" -> "route_intent"
      [] node = "extract_slots" -> "validate_slots"
      [] node = "ask_question" -> "END"
      [] node = "call_tool" -> "END"
      [] node = "generate_response" -> "END"

-----------------------------------------------------------------------------
(* The shared counter store and the fixed-window rate limiter *)

\* TTL's answers for a key that does not exist and for a key without expiry
NO_KEY == -2
NO_EXPIRY == -1

NoEntry == [count |-> 0, ttl |-> NO_KEY]

ToolNames == {"weather.get", "echo.tool"}
Principals == {"s1", "anon", "+15550001"}

RlToolKey(name, principal) == "rl:tool:" \o name \o ":" \o principal

RlChatKey(session_id) == "rl:chat:" \o session_id

\* the key of the webhook's rate limit
RlWhatsappKey(phone_number) == "rl:whatsapp:" \o phone_number

Keys == {RlToolKey(n, q) : n \in ToolNames, q \in Principals}
            \cup {RlChatKey("s1"), RlWhatsappKey("+15550001")}

RateLimitOutcome(allowed, remaining, limit, reset_seconds) ==
    [allowed |-> allowed, remaining |-> remaining, limit |-> limit,
     reset_seconds |-> reset_seconds]

Max0(n) == IF n > 0 THEN n ELSE 0

\* variant: the hit that reaches the limit is denied already
fwa_outcome_strict(count, ttl, limit) ==
    RateLimitOutcome(count < limit, Max0(limit - count), limit, ttl)

\* lines 36-37 of fixed_window_allow: the outcome from the count and ttl read
fwa_outcome(count, ttl, limit) ==
    RateLimitOutcome(count <= limit, Max0(limit - count), limit, ttl)

IdleCall ==
    [pc |-> "idle", op |-> "", name |-> "", payload |-> EmptyDict, args |-> EmptyDict,
     key |-> "", limit |-> 0, window |-> 0, count |-> 0, ttl |-> 0,
     outcome |-> None, result |-> None, error |-> None, reset |-> None,
     trace |-> <<>>, nth |-> 0, left |-> 0, after_expiry |-> FALSE, after_denial |-> FALSE,
     stale |-> FALSE, expected_model |-> None, native |-> None, model |-> None]

\* the history of a key: the age of its current window on the history's own clock
\* (None until the window's first outcome is decided), the outcomes decided in it,
\* each with the time the window then had left on that clock, and whether one of
\* them was a denial.  A caller's record notes its place in that history: the ordinal
\* of its outcome in the window (nth), the time the window had left (left), and
\* whether the key's previous window had run out (after_expiry), with a denial in
\* it (after_denial).
\* The history also counts the calls that were allowed on the key's current counter,
\* i.e. since the key was last created (granted); a caller whose increment was made on
\* a counter that has expired since is marked (stale) and is not counted on the next.
NoWindow == [age |-> None, window |-> 0, log |-> <<>>, denied |-> FALSE, granted |-> 0]

\* the window of `key` has run out on the history's own clock
Elapsed(w) == w.age # None /\ Val(w.age) >= w.window

-----------------------------------------------------------------------------
(* The tool registry and the tools *)

\* the tool objects: a tool has a name, and two tools can have the same name
ToolObjects == [name : ToolNames, id : {"t1", "t2"}]

\* the registry after each of `names` was registered once
Registered(names) == [n \in names |-> [name |-> n, id |-> "t1"]]

\* a variant of register that replaces the tool of a name already present
register_replacing(reg, tool) ==
    [registry |-> [n \in DOMAIN reg \cup {tool.name} |-> IF n = tool.name THEN tool ELSE reg[n]],
     error |-> None]

\* register(tool): the registry after the call, and the error it raised
register(reg, tool) ==
    IF tool.name \in DOMAIN reg
    THEN [registry |-> reg, error |-> Some("ValueError: Duplicate tool")]
    ELSE [registry |-> [n \in DOMAIN reg \cup {tool.name} |->
                            IF n = tool.name THEN tool ELSE reg[n]],
          error |-> None]

\* tool.input_model(**payload): the required string field is present and a string
valid_input(name, payload) ==
    IF name = "weather.get"
    THEN "location" \in DOMAIN payload /\ payload.location # None
    ELSE "text" \in DOMAIN payload /\ payload.text # None

\* What a tool body can return or raise for validated arguments.
\* weather.get (WeatherTool.__call__): a report, an "Error: ..." report for a
\* ValueError of the lookup, or any other exception of the lookup.
\* echo.tool (the tests' EchoTool): its text.  A tool written against the Tool protocol
\* can also return a dict, as the ExampleTool of the tests does: one with the fields of
\* the output model and a key more, and a "malformed" one that the output model rejects.
\* A tool body handed arguments that are no instance of its input model raises.
\* cls is the model the returned object is an instance of, None for a dict.
tool_outcomes(name, args) ==
    IF ~valid_input(name, args)
    THEN {[kind |-> "raise", cls |-> None, value |-> EmptyDict]}
    ELSE IF name = "weather.get"
    THEN {[kind |-> "return", cls |-> Some("WeatherReport"),
           value |-> [location_label |-> title(Val(args.location)),
                      date |-> IF Get(args, "date") = None THEN "today" ELSE Val(args.date),
                      summary |-> sm]] : sm \in {"Sunny", "Error: lookup failed"}}
         \cup {[kind |-> "raise", cls |-> None, value |-> EmptyDict]}
    ELSE {[kind |-> "return", cls |-> Some("EchoOut"), value |-> [text |-> Val(args.text)]],
          [kind |-> "return", cls |-> None, value |-> [text |-> Val(args.text), note |-> "x"]],
          [kind |-> "return", cls |-> None, value |-> EmptyDict]}

\* tool.output_model
output_model(name) == IF name = "weather.get" THEN "WeatherReport" ELSE "EchoOut"

\* the fields of the output models (AlternateOut: a model of the caller with the
\* fields of the tool's own, as in the tests)
ModelFields(model) ==
    IF model = "WeatherReport" THEN {"location_label", "date", "summary"} ELSE {"text"}

\* model.model_validate(result) succeeds: result is an instance of model, or a dict
\* with the model's fields
validates(model, o) ==
    IF o.cls # None THEN Val(o.cls) = model ELSE ModelFields(model) \subseteq DOMAIN o.value

\* model.model_validate(result): an instance is returned as it is, a dict becomes an
\* instance with the model's fields
model_validate(model, o) ==
    IF o.cls # None THEN o.value ELSE [f \in ModelFields(model) |-> o.value[f]]

-----------------------------------------------------------------------------
(* call_tool and fixed_window_allow, as the values of the caller's record *)

ToolContext(user_id, session_id) == [user_id |-> user_id, session_id |-> session_id]

\* ctx.user_id or ctx.session_id or "anon"
Principal(ctx) ==
    IF ~FalsyStr(ctx.user_id) THEN Val(ctx.user_id)
    ELSE IF ~FalsyStr(ctx.session_id) THEN Val(ctx.session_id)
    ELSE "anon"

\* variant: call_tool goes on to the tool whatever the outcome
after_rate_limit_ignored(c) ==
    IF c.op = "call_tool"
    THEN [c EXCEPT !.pc = "execute", !.trace = Append(@, "rate_ok")]
    ELSE [c EXCEPT !.pc = "done", !.result = c.outcome]

\* The code that follows the return of fixed_window_allow: call_tool raises
\* RateLimitError, with the outcome's reset_seconds in its message, or goes on to
\* the tool; a direct caller gets the outcome.
after_rate_limit(c) ==
    IF c.op = "call_tool"
    THEN IF ~Val(c.outcome).allowed
         THEN [c EXCEPT !.pc = "done", !.error = Some("RateLimitError"),
                        !.reset = Some(Val(c.outcome).reset_seconds)]
         ELSE [c EXCEPT !.pc = "execute", !.trace = Append(@, "rate_ok")]
    ELSE [c EXCEPT !.pc = "done", !.result = c.outcome]

\* a variant for which a limit of zero or below is a limit like any other
fwa_enter_no_switch(c, key, limit, window) ==
    [c EXCEPT !.key = key, !.limit = limit, !.window = window, !.pc = "pipeline"]

\* fixed_window_allow up to its first await
fwa_enter(c, key, limit, window) ==
    LET c1 == [c EXCEPT !.key = key, !.limit = limit, !.window = window] IN
    IF limit <= 0
    THEN after_rate_limit(
             [c1 EXCEPT !.outcome = Some(RateLimitOutcome(TRUE, limit, limit, window))])
    ELSE [c1 EXCEPT !.pc = "pipeline"]

\* window_seconds of call_tool's rate limit
TOOL_WINDOW_SECONDS == 60

\* variant: the rate limit is taken before the allow-list is looked at
call_tool_enter_unlisted(name, payload, ctx) ==
    LET c0 == [IdleCall EXCEPT !.op = "call_tool", !.name = name, !.payload = payload] IN
    IF name \notin DOMAIN registry
    THEN [c0 EXCEPT !.pc = "done", !.error = Some("KeyError")]
    ELSE IF ~valid_input(name, payload)
    THEN [c0 EXCEPT !.pc = "done", !.error = Some("ValidationError(input)")]
    ELSE fwa_enter([c0 EXCEPT !.args = payload, !.trace = <<"validated_in">>],
                   RlToolKey(name, Principal(ctx)),
                   settings.rate_limit_tool_per_min, TOOL_WINDOW_SECONDS)

\* variant: the payload is handed on without validation
call_tool_enter_unvalidated(name, payload, ctx) ==
    LET c0 == [IdleCall EXCEPT !.op = "call_tool", !.name = name, !.payload = payload] IN
    IF name \notin settings.tool_allowlist
    THEN [c0 EXCEPT !.pc = "done", !.error = Some("PermissionError")]
    ELSE IF name \notin DOMAIN registry
    THEN [c0 EXCEPT !.pc = "done", !.error = Some("KeyError"), !.trace = <<"allowed">>]
    ELSE fwa_enter([c0 EXCEPT !.args = payload, !.trace = <<"allowed">>],
                   RlToolKey(name, Principal(ctx)),
                   settings.rate_limit_tool_per_min, TOOL_WINDOW_SECONDS)

\* call_tool up to its first await of the store
call_tool_enter(name, payload, ctx) ==
    LET c0 == [IdleCall EXCEPT !.op = "call_tool", !.name = name, !.payload = payload] IN
    IF name \notin settings.tool_allowlist
    THEN [c0 EXCEPT !.pc = "done", !.error = Some("PermissionError")]
    ELSE IF name \notin DOMAIN registry
    THEN [c0 EXCEPT !.pc = "done", !.error = Some("KeyError"), !.trace = <<"allowed">>]
    ELSE IF ~valid_input(name, payload)
    THEN [c0 EXCEPT !.pc = "done", !.error = Some("ValidationError(input)"),
                    !.trace = <<"allowed">>]
    ELSE fwa_enter([c0 EXCEPT !.args = payload, !.trace = <<"allowed", "validated_in">>],
                   RlToolKey(name, Principal(ctx)),
                   settings.rate_limit_tool_per_min, TOOL_WINDOW_SECONDS)

\* variant: the increment is a read followed by a write of 1 on a fresh key, so
\* that the hits on an existing counter are lost
store_incr_ttl_lost(entry) ==
    [count |-> IF entry.count = 0 THEN 1 ELSE entry.count,
     ttl |-> IF entry.ttl = NO_KEY THEN NO_EXPIRY ELSE entry.ttl]

\* INCR key 1; TTL key, executed by the store as one transaction
store_incr_ttl(entry) ==
    [count |-> entry.count + 1,
     ttl |-> IF entry.ttl = NO_KEY THEN NO_EXPIRY ELSE entry.ttl]

\* EXPIRE key seconds: sets the expiry of an existing key
store_expire(entry, seconds) ==
    IF entry.ttl = NO_KEY THEN entry ELSE [entry EXCEPT !.ttl = seconds]

\* the caller's record with the place of its outcome in the history of its key
Observed(w, c) ==
    [c EXCEPT !.nth = Len(w.log) + 1,
              !.left = IF w.age = None THEN c.window ELSE c.window - Val(w.age)]

\* the history of a key, after one more outcome has been decided
Decided(w, c) ==
    [age |-> IF w.age = None THEN Some(0) ELSE w.age,
     window |-> c.window,
     log |-> Append(w.log, [outcome |-> Val(c.outcome), left |-> c.left]),
     denied |-> w.denied \/ ~Val(c.outcome).allowed,
     granted |-> IF Val(c.outcome).allowed /\ ~c.stale THEN w.granted + 1 ELSE w.granted]

\* pipe.execute(), and the code after it up to the next await
Pipeline(p) ==
    /\ calls[p].pc = "pipeline"
    /\ LET c == calls[p]
           e == store_incr_ttl(redis[c.key])
           w == IF Elapsed(windows[c.key])
                THEN [NoWindow EXCEPT !.granted = windows[c.key].granted]
                ELSE windows[c.key]
           c1 == [c EXCEPT !.count = e.count, !.ttl = e.ttl, !.trace = Append(@, "incr"),
                           !.after_expiry = Elapsed(windows[c.key]),
                           !.after_denial = Elapsed(windows[c.key]) /\ windows[c.key].denied]
       IN /\ redis' = [redis EXCEPT ![c.key] = e]
          /\ IF e.ttl = NO_EXPIRY
             THEN /\ calls' = [calls EXCEPT ![p] = [c1 EXCEPT !.pc = "expire"]]
                  /\ windows' = [windows EXCEPT ![c.key] = w]
             ELSE LET c2 == Observed(w, [c1 EXCEPT !.outcome =
                                                Some(fwa_outcome(e.count, e.ttl, c.limit))])
                  IN /\ calls' = [calls EXCEPT ![p] = after_rate_limit(c2)]
                     /\ windows' = [windows EXCEPT ![c.key] = Decided(w, c2)]

\* redis.expire(key, window_seconds) of the first hit, and the code after it
Expire(p) ==
    /\ calls[p].pc = "expire"
    /\ LET c == calls[p]
           c2 == Observed(windows[c.key],
                          [c EXCEPT !.ttl = c.window,
                                    !.outcome = Some(fwa_outcome(c.count, c.window, c.limit))])
       IN /\ redis' = [redis EXCEPT ![c.key] = store_expire(@, c.window)]
          /\ calls' = [calls EXCEPT ![p] = after_rate_limit(c2)]
          /\ windows' = [windows EXCEPT ![c.key] = Decided(@, c2)]

\* variant: the result is always validated against the tool's own output model
validation_model_declared(c) == output_model(c.name)

\* model = expected_model or tool.output_model
validation_model(c) ==
    IF c.expected_model # None THEN Val(c.expected_model) ELSE output_model(c.name)

\* lines 41-47 of call_tool: the tool runs and its return value is validated
after_tool(c, o) ==
    IF o.kind = "raise"
    THEN [c EXCEPT !.pc = "done", !.error = Some("ToolError"),
                   !.trace = Append(@, "executed")]
    ELSE LET model == validation_model(c) IN
         IF ~validates(model, o)
         THEN [c EXCEPT !.pc = "done", !.error = Some("ValidationError(output)"),
                        !.native = Some(o), !.trace = Append(@, "executed")]
         ELSE [c EXCEPT !.pc = "done", !.result = Some(model_validate(model, o)),
                        !.native = Some(o), !.model = Some(model),
                        !.trace = @ \o <<"executed", "validated_out">>]

Execute(p) ==
    /\ calls[p].pc = "execute"
    /\ \E o \in tool_outcomes(calls[p].name, calls[p].args) :
           calls' = [calls EXCEPT ![p] = after_tool(calls[p], o)]
    /\ UNCHANGED <<redis, windows>>

\* Time passes: the store counts the expiries down and drops the keys that expire.
TickSteps == {30, 60}

Tick ==
    /\ \E k \in Keys : redis[k].ttl > 0 \/ (windows[k].age # None /\ ~Elapsed(windows[k]))
    /\ \E d \in TickSteps :
        /\ redis' = [k \in Keys |->
                        IF redis[k].ttl > 0
                        THEN IF redis[k].ttl <= d THEN NoEntry
                             ELSE [redis[k] EXCEPT !.ttl = @ - d]
                        ELSE redis[k]]
        /\ windows' = [k \in Keys |->
                        LET w == IF redis'[k] = NoEntry /\ redis[k] # NoEntry
                                 THEN [windows[k] EXCEPT !.granted = 0] ELSE windows[k]
                        IN IF w.age = None THEN w
                           ELSE IF Val(w.age) + d >= w.window
                           THEN [w EXCEPT !.age = Some(w.window), !.log = <<>>]
                           ELSE [w EXCEPT !.age = Some(Val(@) + d)]]
        /\ calls' = [p \in DOMAIN calls |->
                        IF calls[p].pc = "expire" /\ redis'[calls[p].key] = NoEntry
                        THEN [calls[p] EXCEPT !.stale = TRUE] ELSE calls[p]]

-----------------------------------------------------------------------------
(* The weather tool and its caches *)

\* the lifetime of a cached report: redis.setex(cache_key, 15 * 60, ...)
WX_TTL == 900

WxQueries ==
    {[location |-> Some(<<"Toronto">>), date |-> None],
     [location |-> Some(<<"Toronto">>), date |-> Some("2025-06-01")],
     [location |-> Some(<<"Paris">>), date |-> None]}

\* cache_key = f"wx:{q.location}:{q.date or 'today'}"
wx_cache_key(q) == <<"wx", Val(q.location), IF FalsyStr(q.date) THEN "today" ELSE Val(q.date)>>
WxKeys == {wx_cache_key(q) : q \in WxQueries}

\* str.lower(), word by word
LowerWord(w) ==
    CASE w = "Toronto" -> "toronto"
      [] w = "Paris" -> "paris"
      [] OTHER -> w
lower(ws) == [i \in 1..Len(ws) |-> LowerWord(ws[i])]

\* cache_key = f"geo:{location.lower()}"
geo_cache_key(location) == <<"geo", lower(location)>>

\* report.model_dump_json() and WeatherReport.model_validate_json(cached)
model_dump_json(report) == <<report.location_label, report.date, report.summary>>
model_validate_json(cached) ==
    [location_label |-> cached[1], date |-> cached[2], summary |-> cached[3]]

\* what the geocoding request and the weather request can do: answer, fail with a
\* ValueError (raised or translated by geocode_location / fetch_weather), or fail with
\* another exception (one that fetch_weather does not translate, or the lookup of a
\* settings attribute ahead of the try block)
GeocodeOutcomes == {"ok", "ValueError: Location not found", "raise"}
FetchOutcomes == {"Sunny", "Cloudy", "ValueError: Weather service timed out", "raise"}
IsValueError(o) == o \in {"ValueError: Location not found", "ValueError: Weather service timed out"}
\* str(e) of the ValueError
ErrorText(o) ==
    IF o = "ValueError: Location not found" THEN "Location not found" ELSE "Weather service timed out"

\* no report cached, no location geocoded, no call made
NoWx == [cache |-> [k \in WxKeys |-> None], geo |-> {}, history |-> <<>>]

\* the record of a call of the tool: its query, what it returned or raised, the steps
\* of the lookup it ran, the time the cached report of its key then had left, the time
\* since the call before it, and the time since the call itself
WxCall(q, kind, value, ran, fresh_for) ==
    [q |-> q, kind |-> kind, value |-> value, ran |-> ran, fresh_for |-> fresh_for,
     gap |-> WX_TTL, age |-> 0]

\* a variant of step 4 that does not cache the report
wx_setex_skipped(cache, key, report) == cache

\* step 4: redis.setex(cache_key, 15 * 60, report.model_dump_json())
wx_setex(cache, key, report) ==
    [cache EXCEPT ![key] = Some([json |-> model_dump_json(report), ttl |-> WX_TTL])]

\* WeatherTool.__call__(args, ctx), the geocoding request answering g and the weather
\* request answering f when they are made: the caches after the call and its record
WeatherTool_call(cache, geo, q, g, f) ==
    LET cache_key == wx_cache_key(q)
        location == Val(q.location)
        error_report(o) ==
            [location_label |-> title(location),
             date |-> IF FalsyStr(q.date) THEN "today" ELSE Val(q.date),
             summary |-> "Error: " \o ErrorText(o)]
        is_today == q.date = None \/ q.date = Some("today")
        geo_cached == geo_cache_key(location) \in geo
        geo1 == geo \cup {geo_cache_key(location)}
        ran_geo == IF geo_cached THEN <<"geocode_location">>
                   ELSE <<"geocode_location", "geocode_request">>
    IN  IF cache[cache_key] # None
        THEN [cache |-> cache, geo |-> geo,
              call |-> WxCall(q, "return", model_validate_json(Val(cache[cache_key]).json),
                              <<>>, Val(cache[cache_key]).ttl)]
        ELSE IF ~geo_cached /\ g = "raise"
        THEN [cache |-> cache, geo |-> geo,
              call |-> WxCall(q, "raise", EmptyDict, ran_geo, 0)]
        ELSE IF ~geo_cached /\ IsValueError(g)
        THEN [cache |-> cache, geo |-> geo,
              call |-> WxCall(q, "return", error_report(g), ran_geo, 0)]
        ELSE IF f = "raise"
        THEN [cache |-> cache, geo |-> geo1,
              call |-> WxCall(q, "raise", EmptyDict, ran_geo \o <<"fetch_weather">>, 0)]
        ELSE IF IsValueError(f)
        THEN [cache |-> cache, geo |-> geo1,
              call |-> WxCall(q, "return", error_report(f), ran_geo \o <<"fetch_weather">>, 0)]
        ELSE LET report == [location_label |-> title(location),
                            date |-> IF is_today THEN "today" ELSE Val(q.date),
                            summary |-> f]
                 cache1 == wx_setex(cache, cache_key, report)
             IN [cache |-> cache1, geo |-> geo1,
                 call |-> WxCall(q, "return", report, ran_geo \o <<"fetch_weather">>,
                                 IF cache1[cache_key] = None THEN 0
                                 ELSE Val(cache1[cache_key]).ttl)]

\* the last two calls
Last2(history) == IF Len(history) > 2 THEN Tail(history) ELSE history

-----------------------------------------------------------------------------
(* The streaming transports: frames *)

\* router.route(text).intent
route(text) ==
    IF ContainsAny(text, TRAVEL_KW) THEN "TRAVEL"
    ELSE IF ContainsAny(text, WEATHER_KW) THEN "WEATHER"
    ELSE IF ContainsAny(text, GREETING_KW) THEN "SMALLTALK"
    ELSE "OTHER"

\* tokens matched by \b(kill|murder|bomb|shoot)\b
VIOLENT_THREAT_KW == {"bomb"}

\* safety/moderation.py check_message(text).allowed
check_message(text) == text = <<>> \/ ~ContainsAny(text, VIOLENT_THREAT_KW)

\* the frames, each with the ordinal on its connection of the message it answers
error_frame(n, message) == [type |-> "error", n |-> n, text |-> message]
route_frame(n, intent) == [type |-> "route", n |-> n, text |-> intent]
token_frame(n, tok) == [type |-> "token", n |-> n, text |-> tok]
done_frame(n) == [type |-> "done", n |-> n, text |-> ""]

\* a variant that sends the closing frame twice
send_done_twice(frames, n) == frames \o <<done_frame(n), done_frame(n)>>

\* yield _sse({"type": "done"}) / await ws.send_text(json.dumps({"type": "done"}))
send_done(frames, n) == Append(frames, done_frame(n))

\* no connection
NoSock == [transport |-> "", pc |-> "closed", received |-> 0, message |-> <<>>,
           sent |-> 0, frames |-> <<>>]

\* no request at the webhook; twilio holds the settings twilio_whatsapp_number and
\* twilio_account_sid of the process, each set or not
NoHook == [pc |-> "idle", From |-> "", Body |-> <<>>, store_up |-> TRUE,
           twilio |-> [whatsapp_number |-> TRUE, account_sid |-> TRUE],
           response_parts |-> <<>>, sends |-> <<>>, http |-> 0, status |-> ""]

\* _redis = None, _redis_loop = None
NoClient == [_redis |-> None, _redis_loop |-> None, created |-> 0, history |-> <<>>]

-----------------------------------------------------------------------------
(* The nodes of the graph, as the values they compute *)

Corpus ==
    {<<"What's", "the", "weather?">>,
     <<"weather", "in", "Toronto", "tomorrow">>,
     <<"Find", "flights", "from", "London", "to", "Toronto">>,
     <<"hello", "there">>,
     <<"weather", "for", "New", "York", "today">>,
     <<"forecast", "in", "Paris", "2025-06-01">>,
     <<"weather", "in", "this", "city">>,
     <<"weather", "at", "Rome,", "Italy">>,
     <<"what", "is", "this">>,
     <<"tell", "me", "a", "joke">>,
     <<"book", "a", "table">>,
     <<"rain", "in", "a">>,
     <<"snow", "in", "2025-13-45", "at", "Oslo">>,
     <<>>}

initial_state(session_id, message) ==
    [messages |-> <<message>>, session_id |-> session_id, intent |-> None,
     slots |-> EmptyDict, missing_slots |-> <<>>, next_action |-> None,
     tool_result |-> None, final_response |-> None]

\* state["messages"][-1].content if state["messages"] else ""
last_message(st) == IF st.messages = <<>> THEN <<>> ELSE st.messages[Len(st.messages)]

setup_session(st, config_thread_id) ==
    IF st.session_id = "" THEN [session_id |-> config_thread_id] ELSE EmptyDict

\* variant: a failure of the classifier is answered with the intent OTHER
route_intent_raise_other(st, llm) ==
    LET intent == IF ~settings.openai_api_key THEN _keyword_route(last_message(st))
                  ELSE IF llm = "raise" THEN "OTHER"
                  ELSE llm
    IN [intent |-> Some(intent), slots |-> EmptyDict, missing_slots |-> <<>>]

\* `llm` is what the LLM classifier does when it is called: an intent, or "raise"
route_intent(st, llm) ==
    LET intent == IF settings.openai_api_key /\ llm # "raise" THEN llm
                  ELSE _keyword_route(last_message(st))
    IN [intent |-> Some(intent), slots |-> EmptyDict, missing_slots |-> <<>>]

extract_slots(st) ==
    IF st.intent = Some("WEATHER")
    THEN LET slots == extract_structured(WeatherSlots, last_message(st)) IN
         [slots |-> [location |-> slots.location, date |-> slots.date]]
    ELSE IF st.intent = Some("TRAVEL")
    THEN LET slots == extract_structured(TravelSlots, last_message(st)) IN
         [slots |-> [origin |-> slots.origin, destination |-> slots.destination,
                     depart_date |-> slots.depart_date, return_date |-> slots.return_date,
                     pax_adults |-> slots.pax_adults, cabin |-> slots.cabin]]
    ELSE [slots |-> EmptyDict]

validate_slots_output(v) ==
    [slots |-> v.slots,
     missing_slots |-> ListOr(v.missing, v.ambiguities),
     next_action |-> Some(v.next_action)]

ask_question(st) ==
    LET question ==
            IF st.missing_slots = <<>> THEN "I need more information to help you."
            ELSE LET ask_slot == st.missing_slots[1] IN
                 IF st.intent = Some("WEATHER") THEN weather_question(ask_slot)
                 ELSE IF st.intent = Some("TRAVEL") THEN travel_question(ask_slot)
                 ELSE "Could you clarify that detail, please?"
    IN [final_response |-> Some(question)]

\* str(e) of what call_tool raised
error_text(c) ==
    CASE c.error = Some("PermissionError") -> "Tool '" \o c.name \o "' is not allowed"
      [] c.error = Some("KeyError") -> "'" \o c.name \o "'"
      [] c.error = Some("RateLimitError") ->
            "Rate limit exceeded for " \o c.name \o ". Try again in "
                \o ToString(Val(c.reset)) \o "s."
      [] OTHER -> Val(c.error)

\* variant: what call_tool raises is not turned into a response
weather_response_uncaught(c) ==
    IF c.error = None
    THEN LET report == Val(c.result) IN
         [final_response |->
             Some(Join(report.location_label) \o " on " \o report.date \o ": "
                  \o report.summary \o ".")]
    ELSE [final_response |-> None]

\* variant: a RateLimitError is let through instead of being turned into a response
weather_response_rate_limit_uncaught(c) ==
    IF c.error = None
    THEN LET report == Val(c.result) IN
         [final_response |->
             Some(Join(report.location_label) \o " on " \o report.date \o ": "
                  \o report.summary \o ".")]
    ELSE IF c.error = Some("RateLimitError") THEN [final_response |-> None]
    ELSE [final_response |-> Some("Sorry, I couldn't fetch the weather: " \o error_text(c))]

\* call_tool_node's WEATHER branch once call_tool has returned or raised
\* (the temperature of the report is left out of the text)
weather_response(c) ==
    IF c.error = None
    THEN LET report == Val(c.result) IN
         [final_response |->
             Some(Join(report.location_label) \o " on " \o report.date \o ": "
                  \o report.summary \o ".")]
    ELSE [final_response |-> Some("Sorry, I couldn't fetch the weather: " \o error_text(c))]

\* call_tool_node's other branches
stub_response(st) ==
    IF st.intent = Some("TRAVEL")
    THEN [final_response |->
             Some("Got it. " \o Join(Val(st.slots.origin)) \o " -> "
                  \o Join(Val(st.slots.destination)) \o " on " \o Val(st.slots.depart_date)
                  \o " for " \o ToString(Val(st.slots.pax_adults)) \o " adult(s).")]
    ELSE [final_response |-> Some("I'm not sure how to help with that.")]

generate_response(st) ==
    [final_response |->
        Some(IF st.intent = Some("SMALLTALK")
             THEN "Hello! How can I help you today? I can assist with travel or weather."
             ELSE IF st.intent = Some("OTHER")
             THEN "Would you like help with travel or weather?"
             ELSE "I'm here to help! What would you like to know?")]

\* what handle_turn yields for one event of graph.astream
Yields(node_name, node_output) ==
    IF DOMAIN node_output = {} THEN <<>>
    ELSE (IF node_name = "route_intent" /\ "intent" \in DOMAIN node_output
          THEN <<"[intent:" \o Val(node_output.intent) \o "]">> ELSE <<>>)
         \o (IF "final_response" \in DOMAIN node_output
                /\ ~FalsyStr(node_output.final_response)
             THEN <<Val(node_output.final_response)>> ELSE <<>>)

-----------------------------------------------------------------------------
(* The turn: handle_turn and the nodes as steps *)

Sessions == {"s1", ""}

Callers == {"c1", "c2"}
TurnCaller == "c1"

MaxCount == 3

RECURSIVE SumCounts(_)
SumCounts(K) ==
    IF K = {} THEN 0
    ELSE LET k == CHOOSE x \in K : TRUE IN redis[k].count + SumCounts(K \ {k})

\* the bound of the model on the counters of the store
BelowCap == SumCounts(Keys) < MaxCount

NodeDone(node, output, next) ==
    /\ state' = Merge(state, output)
    /\ out' = out \o Yields(node, output)
    /\ visited' = Append(visited, node)
    /\ pc' = next

handle_turn ==
    /\ pc = "idle"
    /\ BelowCap
    /\ \E session_id \in Sessions, message \in Corpus :
        /\ state' = initial_state(session_id, message)
        /\ thread_id' = session_id
    /\ pc' = graph_edge("START")
    /\ out' = <<>>
    /\ visited' = <<>>
    /\ locals' = NoLocals
    /\ UNCHANGED <<gateVars, confVars, toolVars>>

setup_session_node ==
    /\ pc = "setup_session"
    /\ NodeDone("setup_session", setup_session(state, thread_id), graph_edge("setup_session"))
    /\ UNCHANGED <<thread_id, locals, gateVars, confVars, toolVars>>

route_intent_node ==
    /\ pc = "route_intent"
    /\ \E llm \in Intents \cup {"raise"} :
       \E output \in {route_intent(state, llm)} :
         /\ NodeDone("route_intent", output, should_extract_slots(Merge(state, output)))
         /\ locals' = [locals EXCEPT !.llm = IF settings.openai_api_key THEN Some(llm)
                                              ELSE None]
    /\ UNCHANGED <<thread_id, gateVars, confVars, toolVars>>

\* the messages of the turns that run the weather tool's own body: each asks for one
\* of WxQueries
WxCorpus ==
    {<<"weather", "in", "Toronto", "tomorrow">>,
     <<"forecast", "in", "Toronto", "2025-06-01">>,
     <<"weather", "in", "Paris">>}

\* extract_slots_node's output for each message and each intent, computed once (the
\* output depends on the intent and the last message only)
extract_slots_of ==
    [message \in Corpus \cup WxCorpus |->
        [intent \in Intents |->
            extract_slots([initial_state("", message) EXCEPT !.intent = Some(intent)])]]

extract_slots_node ==
    /\ pc = "extract_slots"
    /\ \E output \in {extract_slots_of[last_message(state)][Val(state.intent)]} :
         NodeDone("extract_slots", output, graph_edge("extract_slots"))
    /\ UNCHANGED <<thread_id, locals, gateVars, confVars, toolVars>>

validate_slots_node ==
    /\ pc = "validate_slots"
    /\ \E v \in {validate_slots(state.intent, state.slots)} :
       \E output \in {validate_slots_output(v)} :
          /\ NodeDone("validate_slots", output, route_after_validation(Merge(state, output)))
          /\ locals' = [locals EXCEPT !.missing = v.missing,
                                       !.ambiguities = v.ambiguities,
                                       !.ask_slot = v.ask_slot]
    /\ UNCHANGED <<thread_id, gateVars, confVars, toolVars>>

ask_question_node ==
    /\ pc = "ask_question"
    /\ NodeDone("ask_question", ask_question(state), graph_edge("ask_question"))
    /\ UNCHANGED <<thread_id, locals, gateVars, confVars, toolVars>>

\* call_tool_node up to its await of call_tool (WEATHER), or all of it (other intents)
call_tool_node ==
    /\ pc = "call_tool"
    /\ IF state.intent = Some("WEATHER")
       THEN /\ calls' = [calls EXCEPT ![TurnCaller] =
                            call_tool_enter("weather.get",
                                [location |-> state.slots.location, date |-> state.slots.date],
                                ToolContext(None, Some(state.session_id)))]
            /\ pc' = "call_tool.await"
            /\ UNCHANGED <<state, out, visited>>
       ELSE /\ NodeDone("call_tool", stub_response(state), graph_edge("call_tool"))
            /\ UNCHANGED calls
    /\ UNCHANGED <<thread_id, locals, redis, windows, confVars, toolVars>>

\* call_tool_node once call_tool has returned or raised
call_tool_node_resume ==
    /\ pc = "call_tool.await"
    /\ calls[TurnCaller].pc = "done"
    /\ NodeDone("call_tool", weather_response(calls[TurnCaller]), graph_edge("call_tool"))
    /\ calls' = [calls EXCEPT ![TurnCaller] = IdleCall]
    /\ UNCHANGED <<thread_id, locals, redis, windows, confVars, toolVars>>

generate_response_node ==
    /\ pc = "generate_response"
    /\ NodeDone("generate_response", generate_response(state), graph_edge("generate_response"))
    /\ UNCHANGED <<thread_id, locals, gateVars, confVars, toolVars>>

\* graph.astream is exhausted: handle_turn's generator ends and the turn's context
\* is dropped
handle_turn_end ==
    /\ pc = "END"
    /\ pc' = "idle"
    /\ state' = initial_state("", <<>>)
    /\ thread_id' = ""
    /\ locals' = NoLocals
    /\ out' = <<>>
    /\ visited' = <<>>
    /\ UNCHANGED <<gateVars, confVars, toolVars>>

\* the steps of the store and of the tool for the call the turn awaits
GatewayStep ==
    /\ \E p \in Callers : Pipeline(p) \/ Expire(p) \/ Execute(p)
    /\ UNCHANGED <<turnVars, confVars, toolVars>>

TimePasses ==
    /\ Tick
    /\ UNCHANGED <<turnVars, confVars, toolVars>>

TurnStep ==
    \/ setup_session_node
    \/ route_intent_node
    \/ extract_slots_node
    \/ validate_slots_node
    \/ ask_question_node
    \/ call_tool_node
    \/ call_tool_node_resume
    \/ generate_response_node
    \/ handle_turn_end
    \/ GatewayStep

MaxLimit == 2

Init ==
    /\ settings \in [tool_allowlist : {{}, {"weather.get"}},
                     rate_limit_tool_per_min : {MaxLimit},
                     rate_limit_chat_per_min : {MaxLimit},
                     openai_api_key : BOOLEAN,
                     moderation_enabled : {TRUE}]
    /\ registry \in {Registered({}), Registered({"weather.get"})}
    /\ redis = [k \in Keys |-> NoEntry]
    /\ calls = [p \in Callers |-> IdleCall]
    /\ windows = [k \in Keys |-> NoWindow]
    /\ pc = "idle"
    /\ state = initial_state("", <<>>)
    /\ thread_id = ""
    /\ locals = NoLocals
    /\ out = <<>>
    /\ visited = <<>>
    /\ wx = NoWx
    /\ sock = NoSock
    /\ registrations = <<>>
    /\ applied = NotApplied
    /\ hook = NoHook
    /\ redis_client = NoClient
    /\ app = "up"

Next ==
    \/ handle_turn
    \/ TurnStep
    \/ TimePasses

Spec == Init /\ [][Next]_vars

\* the event loop keeps running the turn's coroutine, and the store, the classifier
\* and the tool answer every request
FairSpec == Spec /\ WF_vars(TurnStep)

-----------------------------------------------------------------------------
(* validate_slots_node and what follows it, on every slot dict of the slot types *)

RawPlaces == {None, Some(<<>>), Some(<<"London">>), Some(<<"lhr">>)}
RawDateSlots == {None} \cup {Some(d) : d \in RawDates}
RawPax == {None, Some(0), Some(2), Some(10)}

RawWeatherSlots == [location : {None, Some(<<>>), Some(<<"Toronto">>)}, date : RawDateSlots]

RawTravelSlots ==
    [origin : RawPlaces, destination : RawPlaces, depart_date : RawDateSlots,
     return_date : {None}, pax_adults : RawPax, cabin : {None}]

InitValidate ==
    /\ settings \in [tool_allowlist : {{}, {"weather.get"}},
                     rate_limit_tool_per_min : {MaxLimit},
                     rate_limit_chat_per_min : {MaxLimit},
                     openai_api_key : {FALSE},
                     moderation_enabled : {TRUE}]
    /\ registry = Registered({"weather.get"})
    /\ redis = [k \in Keys |-> NoEntry]
    /\ calls = [p \in Callers |-> IdleCall]
    /\ windows = [k \in Keys |-> NoWindow]
    /\ pc = "validate_slots"
    /\ \E intent \in Intents :
         \E slots \in (IF intent = "WEATHER" THEN RawWeatherSlots
                       ELSE IF intent = "TRAVEL" THEN RawTravelSlots
                       ELSE {EmptyDict}) :
            state = [initial_state("s1", <<>>) EXCEPT !.intent = Some(intent), !.slots = slots]
    /\ thread_id = "s1"
    /\ locals = NoLocals
    /\ out = <<"[intent:" \o Val(state.intent) \o "]">>
    /\ visited = <<"setup_session", "route_intent", "extract_slots">>
    /\ wx = NoWx
    /\ sock = NoSock
    /\ registrations = <<>>
    /\ applied = NotApplied
    /\ hook = NoHook
    /\ redis_client = NoClient
    /\ app = "up"

NextValidate ==
    \/ validate_slots_node
    \/ ask_question_node
    \/ call_tool_node
    \/ call_tool_node_resume
    \/ generate_response_node
    \/ GatewayStep

SpecValidate == InitValidate /\ [][NextValidate]_vars

-----------------------------------------------------------------------------
(* The gateway and the rate limiter called directly, one call at a time *)

\* a payload the tool's input model accepts, and one it rejects
Payloads(name) ==
    IF name = "weather.get"
    THEN {[location |-> Some(<<"Toronto">>), date |-> None],
          [location |-> None, date |-> None]}
    ELSE {[text |-> Some("a")], EmptyDict}

Contexts == {ToolContext(None, Some("s1")), ToolContext(None, None)}

\* window_seconds of the chat rate limit
CHAT_WINDOW_SECONDS == 60

\* the caller of the direct calls, and no call of anyone in flight
DirectCaller == "c2"
AllReturned == \A p \in Callers : calls[p].pc \in {"idle", "done"}

call_tool ==
    /\ AllReturned
    /\ BelowCap
    /\ \E name \in ToolNames, ctx \in Contexts :
       \E payload \in Payloads(name) :
          calls' = [calls EXCEPT ![DirectCaller] = call_tool_enter(name, payload, ctx)]
    /\ UNCHANGED <<redis, windows, turnVars, confVars, toolVars>>

\* the chat rate limit of api/chat.py: fixed_window_allow called directly
chat_rate_limit ==
    /\ AllReturned
    /\ BelowCap
    /\ calls' = [calls EXCEPT ![DirectCaller] =
                    fwa_enter([IdleCall EXCEPT !.op = "fixed_window_allow"],
                              RlChatKey("s1"), settings.rate_limit_chat_per_min,
                              CHAT_WINDOW_SECONDS)]
    /\ UNCHANGED <<redis, windows, turnVars, confVars, toolVars>>

Limits == 0..MaxLimit

InitGateway ==
    /\ settings \in [tool_allowlist : SUBSET ToolNames,
                     rate_limit_tool_per_min : Limits,
                     rate_limit_chat_per_min : {MaxLimit},
                     openai_api_key : {FALSE},
                     moderation_enabled : {TRUE}]
    /\ registry \in {Registered(ToolNames), Registered({"weather.get"})}
    /\ redis = [k \in Keys |-> NoEntry]
    /\ calls = [p \in Callers |-> IdleCall]
    /\ windows = [k \in Keys |-> NoWindow]
    /\ pc = "idle"
    /\ state = initial_state("", <<>>)
    /\ thread_id = ""
    /\ locals = NoLocals
    /\ out = <<>>
    /\ visited = <<>>
    /\ wx = NoWx
    /\ sock = NoSock
    /\ registrations = <<>>
    /\ applied = NotApplied
    /\ hook = NoHook
    /\ redis_client = NoClient
    /\ app = "up"

NextGateway ==
    \/ call_tool
    \/ chat_rate_limit
    \/ GatewayStep
    \/ TimePasses

SpecGateway == InitGateway /\ [][NextGateway]_vars

\* the gateway and the chat rate limit of a process whose two limits are set to the
\* same value, positive, zero or negative
AnyLimits == -1..MaxLimit

InitAnyLimit ==
    /\ \E limit \in AnyLimits :
         settings = [tool_allowlist |-> {"weather.get"},
                     rate_limit_tool_per_min |-> limit,
                     rate_limit_chat_per_min |-> limit,
                     openai_api_key |-> FALSE,
                     moderation_enabled |-> TRUE]
    /\ registry = Registered({"weather.get"})
    /\ redis = [k \in Keys |-> NoEntry]
    /\ calls = [p \in Callers |-> IdleCall]
    /\ windows = [k \in Keys |-> NoWindow]
    /\ pc = "idle"
    /\ state = initial_state("", <<>>)
    /\ thread_id = ""
    /\ locals = NoLocals
    /\ out = <<>>
    /\ visited = <<>>
    /\ wx = NoWx
    /\ sock = NoSock
    /\ registrations = <<>>
    /\ applied = NotApplied
    /\ hook = NoHook
    /\ redis_client = NoClient
    /\ app = "up"

SpecAnyLimit == InitAnyLimit /\ [][NextGateway]_vars

-----------------------------------------------------------------------------
(* The gateway called with an expected_model *)

ExpectedModels == {None, Some("AlternateOut"), Some("WeatherReport")}

call_tool_expecting ==
    /\ AllReturned
    /\ BelowCap
    /\ \E name \in ToolNames, expected_model \in ExpectedModels :
       \E payload \in Payloads(name) :
          calls' = [calls EXCEPT ![DirectCaller] =
                       [call_tool_enter(name, payload, ToolContext(None, Some("s1")))
                           EXCEPT !.expected_model = expected_model]]
    /\ UNCHANGED <<redis, windows, turnVars, confVars, toolVars>>

InitExpectedModel ==
    /\ settings \in [tool_allowlist : {ToolNames},
                     rate_limit_tool_per_min : 1..MaxLimit,
                     rate_limit_chat_per_min : {MaxLimit},
                     openai_api_key : {FALSE},
                     moderation_enabled : {TRUE}]
    /\ registry = Registered(ToolNames)
    /\ redis = [k \in Keys |-> NoEntry]
    /\ calls = [p \in Callers |-> IdleCall]
    /\ windows = [k \in Keys |-> NoWindow]
    /\ pc = "idle"
    /\ state = initial_state("", <<>>)
    /\ thread_id = ""
    /\ locals = NoLocals
    /\ out = <<>>
    /\ visited = <<>>
    /\ wx = NoWx
    /\ sock = NoSock
    /\ registrations = <<>>
    /\ applied = NotApplied
    /\ hook = NoHook
    /\ redis_client = NoClient
    /\ app = "up"

NextExpectedModel ==
    \/ call_tool_expecting
    \/ GatewayStep
    \/ TimePasses

SpecExpectedModel == InitExpectedModel /\ [][NextExpectedModel]_vars

-----------------------------------------------------------------------------
(* Registration of tools *)

\* the calls of register the history keeps
MaxRegistrations == 4

register_tool ==
    /\ Len(registrations) < MaxRegistrations
    /\ \E tool \in ToolObjects :
         \E r \in {register(registry, tool)} :
            /\ registry' = r.registry
            /\ registrations' = Append(registrations, [tool |-> tool, raised |-> r.error # None])
    /\ UNCHANGED <<settings, turnVars, gateVars, wx, sock, applied, hook, redis_client, app>>

\* a process starts over: the module is loaded again with an empty _REGISTRY
reload ==
    /\ registrations # <<>>
    /\ registry' = Registered({})
    /\ registrations' = <<>>
    /\ UNCHANGED <<settings, turnVars, gateVars, wx, sock, applied, hook, redis_client, app>>

InitRegister ==
    /\ settings \in [tool_allowlist : {ToolNames},
                     rate_limit_tool_per_min : {MaxLimit},
                     rate_limit_chat_per_min : {MaxLimit},
                     openai_api_key : {FALSE},
                     moderation_enabled : {TRUE}]
    /\ registry = Registered({})
    /\ redis = [k \in Keys |-> NoEntry]
    /\ calls = [p \in Callers |-> IdleCall]
    /\ windows = [k \in Keys |-> NoWindow]
    /\ pc = "idle"
    /\ state = initial_state("", <<>>)
    /\ thread_id = ""
    /\ locals = NoLocals
    /\ out = <<>>
    /\ visited = <<>>
    /\ wx = NoWx
    /\ sock = NoSock
    /\ registrations = <<>>
    /\ applied = NotApplied
    /\ hook = NoHook
    /\ redis_client = NoClient
    /\ app = "up"

NextRegister ==
    \/ register_tool
    \/ reload

SpecRegister == InitRegister /\ [][NextRegister]_vars

-----------------------------------------------------------------------------
(* Turns of one session, one after the other *)

\* a variant in which the graph resumes the state the session's previous turn ended
\* with and is given the new message only
turn_input_resumed(previous, session_id, message) ==
    [previous EXCEPT !.messages = Append(@, message)]

\* the input of graph.astream in handle_turn: initial_state, built from the message;
\* the graph is compiled without a checkpointer, so that the state the session's
\* previous turn ended with is not read
turn_input(previous, session_id, message) == initial_state(session_id, message)

\* the next turn of the session whose turn has just ended
handle_turn_again ==
    /\ pc = "END"
    /\ BelowCap
    /\ \E message \in Corpus :
         state' = turn_input(state, thread_id, message)
    /\ pc' = graph_edge("START")
    /\ out' = <<>>
    /\ visited' = <<>>
    /\ locals' = NoLocals
    /\ UNCHANGED <<thread_id, gateVars, confVars, toolVars>>

InitTwoTurns ==
    /\ settings \in [tool_allowlist : {{"weather.get"}},
                     rate_limit_tool_per_min : {MaxLimit},
                     rate_limit_chat_per_min : {MaxLimit},
                     openai_api_key : BOOLEAN,
                     moderation_enabled : {TRUE}]
    /\ registry = Registered({"weather.get"})
    /\ redis = [k \in Keys |-> NoEntry]
    /\ calls = [p \in Callers |-> IdleCall]
    /\ windows = [k \in Keys |-> NoWindow]
    /\ pc = "idle"
    /\ state = initial_state("", <<>>)
    /\ thread_id = ""
    /\ locals = NoLocals
    /\ out = <<>>
    /\ visited = <<>>
    /\ wx = NoWx
    /\ sock = NoSock
    /\ registrations = <<>>
    /\ applied = NotApplied
    /\ hook = NoHook
    /\ redis_client = NoClient
    /\ app = "up"

NextTwoTurns ==
    \/ handle_turn
    \/ handle_turn_again
    \/ TurnStep
    \/ TimePasses

SpecTwoTurns == InitTwoTurns /\ [][NextTwoTurns]_vars

-----------------------------------------------------------------------------
(* The pure functions, applied to arguments of bounded sets *)

\* texts of up to two of these tokens, besides the messages of the corpus
RouteTokens == {"flights", "book", "weather", "rain", "hello", "this", "joke", "Toronto"}
RouteTexts ==
    Corpus \cup {<<a>> : a \in RouteTokens} \cup {<<a, b>> : a, b \in RouteTokens}

\* candidate lists of up to three slot names
SlotNames == {"depart_date", "destination", "origin", "return_date", "pax_adults", "cabin",
              "location", "date"}
Candidates ==
    {<<>>} \cup {<<a>> : a \in SlotNames} \cup {<<a, b>> : a, b \in SlotNames}

\* the passenger numbers and the raw dates
PaxInputs == {None} \cup {Some(n) : n \in -5..15}
DateInputs == RawDateSlots \cup {Some(d) : d \in NEXT_WEEKDAY_DATES} \cup {Some("")}

\* the applications to make: a function, its arguments, the result outstanding
Application(fn, args) == [NotApplied EXCEPT !.fn = fn, !.args = args]
Applications ==
    {Application("_keyword_route", <<text>>) : text \in RouteTexts}
    \cup {Application("route", <<text>>) : text \in RouteTexts}
    \cup {Application("next_missing", <<slots, priority, again>>) :
            slots \in Candidates, priority \in {TRAVEL_PRIORITY, WEATHER_PRIORITY},
            again \in Candidates}
    \cup {Application("normalise_pax", <<n>>) : n \in PaxInputs}
    \cup {Application("normalise_date", <<raw>>) : raw \in DateInputs}

Outstanding(fn) == applied.fn = fn /\ ~applied.done

apply_keyword_route ==
    /\ Outstanding("_keyword_route")
    /\ applied' = [applied EXCEPT !.done = TRUE, !.result = _keyword_route(applied.args[1])]
    /\ UNCHANGED <<turnVars, gateVars, confVars, wx, sock, registrations, hook, redis_client, app>>

apply_route ==
    /\ Outstanding("route")
    /\ applied' = [applied EXCEPT !.done = TRUE, !.result = route(applied.args[1])]
    /\ UNCHANGED <<turnVars, gateVars, confVars, wx, sock, registrations, hook, redis_client, app>>

\* next_missing on a candidate list, and on a second list with the same priority
apply_next_missing ==
    /\ Outstanding("next_missing")
    /\ applied' = [applied EXCEPT !.done = TRUE,
                                  !.result = <<next_missing(applied.args[1], applied.args[2]),
                                               next_missing(applied.args[3], applied.args[2])>>]
    /\ UNCHANGED <<turnVars, gateVars, confVars, wx, sock, registrations, hook, redis_client, app>>

apply_normalise_pax ==
    /\ Outstanding("normalise_pax")
    /\ applied' = [applied EXCEPT !.done = TRUE, !.result = normalise_pax(applied.args[1])]
    /\ UNCHANGED <<turnVars, gateVars, confVars, wx, sock, registrations, hook, redis_client, app>>

apply_normalise_date ==
    /\ Outstanding("normalise_date")
    /\ applied' = [applied EXCEPT !.done = TRUE, !.result = normalise_date(applied.args[1])]
    /\ UNCHANGED <<turnVars, gateVars, confVars, wx, sock, registrations, hook, redis_client, app>>

InitFunctions ==
    /\ settings \in [tool_allowlist : {{"weather.get"}},
                     rate_limit_tool_per_min : {MaxLimit},
                     rate_limit_chat_per_min : {MaxLimit},
                     openai_api_key : {FALSE},
                     moderation_enabled : {TRUE}]
    /\ registry = Registered({"weather.get"})
    /\ redis = [k \in Keys |-> NoEntry]
    /\ calls = [p \in Callers |-> IdleCall]
    /\ windows = [k \in Keys |-> NoWindow]
    /\ pc = "idle"
    /\ state = initial_state("", <<>>)
    /\ thread_id = ""
    /\ locals = NoLocals
    /\ out = <<>>
    /\ visited = <<>>
    /\ wx = NoWx
    /\ sock = NoSock
    /\ registrations = <<>>
    /\ applied \in Applications
    /\ hook = NoHook
    /\ redis_client = NoClient
    /\ app = "up"

NextFunctions ==
    \/ apply_keyword_route
    \/ apply_route
    \/ apply_next_missing
    \/ apply_normalise_pax
    \/ apply_normalise_date

SpecFunctions == InitFunctions /\ [][NextFunctions]_vars

-----------------------------------------------------------------------------
(* Concurrent turns: calls of the gateway, and of the rate limiter in them, that overlap *)

\* a turn's call_tool_node calls the gateway while other turns' calls are in flight;
\* the turns are those of the session(s) with session id thread_id
call_tool_concurrent ==
    /\ BelowCap
    /\ \E p \in Callers :
        /\ calls[p].pc \in {"idle", "done"}
        /\ calls' = [calls EXCEPT ![p] =
                        call_tool_enter("weather.get",
                                        [location |-> Some(<<"Toronto">>), date |-> None],
                                        ToolContext(None, Some(thread_id)))]
    /\ UNCHANGED <<redis, windows, turnVars, confVars, toolVars>>

InitConcurrent ==
    /\ settings \in [tool_allowlist : {{"weather.get"}},
                     rate_limit_tool_per_min : 1..MaxLimit,
                     rate_limit_chat_per_min : {MaxLimit},
                     openai_api_key : {FALSE},
                     moderation_enabled : {TRUE}]
    /\ registry = Registered({"weather.get"})
    /\ redis = [k \in Keys |-> NoEntry]
    /\ calls = [p \in Callers |-> IdleCall]
    /\ windows = [k \in Keys |-> NoWindow]
    /\ pc = "idle"
    /\ state = initial_state("", <<>>)
    /\ thread_id \in Sessions
    /\ locals = NoLocals
    /\ out = <<>>
    /\ visited = <<>>
    /\ wx = NoWx
    /\ sock = NoSock
    /\ registrations = <<>>
    /\ applied = NotApplied
    /\ hook = NoHook
    /\ redis_client = NoClient
    /\ app = "up"

NextConcurrent ==
    \/ call_tool_concurrent
    \/ GatewayStep
    \/ TimePasses

SpecConcurrent == InitConcurrent /\ [][NextConcurrent]_vars

-----------------------------------------------------------------------------
(* The weather tool called directly, one call after the other *)

\* one call of the tool, after the calls before it have returned
weather_tool_call ==
    /\ \E q \in WxQueries, g \in GeocodeOutcomes, f \in FetchOutcomes :
         \E r \in {WeatherTool_call(wx.cache, wx.geo, q, g, f)} :
            wx' = [cache |-> r.cache, geo |-> r.geo,
                   history |->
                      Last2(Append(wx.history,
                                   [r.call EXCEPT !.gap = IF wx.history = <<>> THEN WX_TTL
                                                          ELSE wx.history[Len(wx.history)].age]))]
    /\ UNCHANGED <<turnVars, gateVars, confVars, sock, registrations, applied, hook, redis_client, app>>

\* Time passes for the caches: the store counts the reports' lifetimes down and drops
\* those that run out; the geo: entries never expire.
WxTickSteps == {300, 600}

WxTick ==
    /\ wx.history # <<>>
    /\ wx.history[Len(wx.history)].age < WX_TTL
    /\ \E d \in WxTickSteps :
         wx' = [wx EXCEPT
                  !.cache = [k \in WxKeys |->
                               IF wx.cache[k] = None THEN None
                               ELSE IF Val(wx.cache[k]).ttl <= d THEN None
                               ELSE Some([Val(wx.cache[k]) EXCEPT !.ttl = @ - d])],
                  !.history = [i \in 1..Len(wx.history) |->
                                 IF i < Len(wx.history) THEN wx.history[i]
                                 ELSE [wx.history[i] EXCEPT
                                         !.age = IF @ + d >= WX_TTL THEN WX_TTL ELSE @ + d]]]
    /\ UNCHANGED <<turnVars, gateVars, confVars, sock, registrations, applied, hook, redis_client, app>>

InitWeatherTool ==
    /\ settings \in [tool_allowlist : {{"weather.get"}},
                     rate_limit_tool_per_min : {MaxLimit},
                     rate_limit_chat_per_min : {MaxLimit},
                     openai_api_key : {FALSE},
                     moderation_enabled : {TRUE}]
    /\ registry = Registered({"weather.get"})
    /\ redis = [k \in Keys |-> NoEntry]
    /\ calls = [p \in Callers |-> IdleCall]
    /\ windows = [k \in Keys |-> NoWindow]
    /\ pc = "idle"
    /\ state = initial_state("", <<>>)
    /\ thread_id = ""
    /\ locals = NoLocals
    /\ out = <<>>
    /\ visited = <<>>
    /\ wx = NoWx
    /\ sock = NoSock
    /\ registrations = <<>>
    /\ applied = NotApplied
    /\ hook = NoHook
    /\ redis_client = NoClient
    /\ app = "up"

NextWeatherTool ==
    \/ weather_tool_call
    \/ WxTick

SpecWeatherTool == InitWeatherTool /\ [][NextWeatherTool]_vars

-----------------------------------------------------------------------------
(* The streaming transports: GET /chat/stream and the WebSocket /ws *)

\* the messages a socket takes before its client disconnects
MaxMessages == 2

SockMessages ==
    {<<"weather", "in", "Toronto", "tomorrow">>, <<"What's", "the", "weather?">>,
     <<"hello", "there">>, <<"bomb">>}

\* the caller of the chat rate limit, and the session of the connection's messages
SockCaller == "c2"
SockSession == "s1"

\* the handler after the frames of a message: chat_stream's response ends, chat_ws
\* goes back to receive_text
AfterMessage(transport) == IF transport = "sse" THEN "end" ELSE "receive"

\* a client opens GET /chat/stream, or a WebSocket that chat_ws accepts
connect ==
    /\ sock.pc = "closed"
    /\ pc = "idle"
    /\ hook.pc = "idle"
    /\ \E transport \in {"sse", "ws"} :
         sock' = [NoSock EXCEPT !.transport = transport, !.pc = "receive"]
    /\ UNCHANGED <<turnVars, gateVars, confVars, wx, registrations, applied, hook, redis_client, app>>

\* the handler takes a message (the query of GET /chat/stream, or receive_text) and
\* moderates it; a blocked one is answered with an error frame, another goes to the
\* chat rate limit
receive ==
    /\ sock.pc = "receive"
    /\ sock.received < (IF sock.transport = "sse" THEN 1 ELSE MaxMessages)
    /\ BelowCap
    /\ \E message \in SockMessages :
         LET n == sock.received + 1 IN
         IF settings.moderation_enabled /\ ~check_message(message)
         THEN /\ sock' = [sock EXCEPT !.received = n, !.message = message, !.sent = 0,
                                      !.frames = Append(@, error_frame(n, "Blocked by safety policy")),
                                      !.pc = AfterMessage(sock.transport)]
              /\ UNCHANGED calls
         ELSE /\ sock' = [sock EXCEPT !.received = n, !.message = message, !.sent = 0,
                                      !.pc = "rate_limit"]
              /\ calls' = [calls EXCEPT ![SockCaller] =
                              fwa_enter([IdleCall EXCEPT !.op = "fixed_window_allow"],
                                        RlChatKey(SockSession),
                                        settings.rate_limit_chat_per_min, CHAT_WINDOW_SECONDS)]
    /\ UNCHANGED <<redis, windows, turnVars, confVars, wx, registrations, applied, hook, redis_client, app>>

\* a variant that sends the error frame of a denied message and runs its turn all the same
rate_limited_turn_anyway ==
    /\ sock.pc = "rate_limit"
    /\ calls[SockCaller].pc = "done"
    /\ calls' = [calls EXCEPT ![SockCaller] = IdleCall]
    /\ sock' = [sock EXCEPT !.frames =
                              IF ~Val(calls[SockCaller].result).allowed
                              THEN Append(@, error_frame(sock.received, "Chat rate limit exceeded"))
                              ELSE Append(@, route_frame(sock.received, route(sock.message))),
                            !.pc = "turn"]
    /\ state' = initial_state(SockSession, sock.message)
    /\ thread_id' = SockSession
    /\ pc' = graph_edge("START")
    /\ out' = <<>>
    /\ visited' = <<>>
    /\ locals' = NoLocals
    /\ UNCHANGED <<redis, windows, confVars, wx, registrations, applied, hook, redis_client, app>>

\* fixed_window_allow has returned: a denied message is answered with an error frame;
\* for an allowed one the handler sends the route frame and starts handle_turn
rate_limited ==
    /\ sock.pc = "rate_limit"
    /\ calls[SockCaller].pc = "done"
    /\ calls' = [calls EXCEPT ![SockCaller] = IdleCall]
    /\ IF ~Val(calls[SockCaller].result).allowed
       THEN /\ sock' = [sock EXCEPT !.frames = Append(@, error_frame(sock.received,
                                                       "Chat rate limit exceeded")),
                                    !.pc = AfterMessage(sock.transport)]
            /\ UNCHANGED turnVars
       ELSE /\ sock' = [sock EXCEPT !.frames = Append(@, route_frame(sock.received,
                                                                     route(sock.message))),
                                    !.pc = "turn"]
            /\ state' = initial_state(SockSession, sock.message)
            /\ thread_id' = SockSession
            /\ pc' = graph_edge("START")
            /\ out' = <<>>
            /\ visited' = <<>>
            /\ locals' = NoLocals
    /\ UNCHANGED <<redis, windows, confVars, wx, registrations, applied, hook, redis_client, app>>

\* handle_turn yields only when the handler asks for its next token: the graph runs on
\* once every token it has yielded is sent
Forwarded == sock.pc = "turn" /\ sock.sent = Len(out)

\* the handler sends a token that handle_turn has yielded
send_token ==
    /\ sock.pc = "turn"
    /\ sock.sent < Len(out)
    /\ sock' = [sock EXCEPT !.sent = @ + 1,
                            !.frames = Append(@, token_frame(sock.received, out[sock.sent + 1]))]
    /\ UNCHANGED <<turnVars, gateVars, confVars, wx, registrations, applied, hook, redis_client, app>>

\* handle_turn's generator is exhausted: the handler sends the done frame
turn_done ==
    /\ Forwarded
    /\ pc = "END"
    /\ sock' = [sock EXCEPT !.frames = send_done(@, sock.received),
                            !.pc = AfterMessage(sock.transport)]
    /\ pc' = "idle"
    /\ state' = initial_state("", <<>>)
    /\ thread_id' = ""
    /\ locals' = NoLocals
    /\ out' = <<>>
    /\ visited' = <<>>
    /\ UNCHANGED <<gateVars, confVars, wx, registrations, applied, hook, redis_client, app>>

\* the response of GET /chat/stream is complete, or receive_text raises
\* WebSocketDisconnect
disconnect ==
    /\ \/ sock.transport = "sse" /\ sock.pc = "end"
       \/ sock.transport = "ws" /\ sock.pc = "receive"
    /\ sock' = NoSock
    /\ UNCHANGED <<turnVars, gateVars, confVars, wx, registrations, applied, hook, redis_client, app>>

\* the graph of the turn the handler iterates
TransportTurnStep ==
    /\ Forwarded
    /\ \/ setup_session_node
       \/ route_intent_node
       \/ extract_slots_node
       \/ validate_slots_node
       \/ ask_question_node
       \/ call_tool_node
       \/ call_tool_node_resume
       \/ generate_response_node

TransportStep ==
    \/ receive
    \/ rate_limited
    \/ send_token
    \/ turn_done
    \/ TransportTurnStep
    \/ GatewayStep

InitTransport ==
    /\ settings \in [tool_allowlist : {{"weather.get"}},
                     rate_limit_tool_per_min : {MaxLimit},
                     rate_limit_chat_per_min : 1..MaxLimit,
                     openai_api_key : {FALSE},
                     moderation_enabled : BOOLEAN]
    /\ registry = Registered({"weather.get"})
    /\ redis = [k \in Keys |-> NoEntry]
    /\ calls = [p \in Callers |-> IdleCall]
    /\ windows = [k \in Keys |-> NoWindow]
    /\ pc = "idle"
    /\ state = initial_state("", <<>>)
    /\ thread_id = ""
    /\ locals = NoLocals
    /\ out = <<>>
    /\ visited = <<>>
    /\ wx = NoWx
    /\ sock = NoSock
    /\ registrations = <<>>
    /\ applied = NotApplied
    /\ hook = NoHook
    /\ redis_client = NoClient
    /\ app = "up"

NextTransport ==
    \/ connect
    \/ disconnect
    \/ TransportStep
    \/ TimePasses

SpecTransport == InitTransport /\ [][NextTransport]_vars

\* the event loop keeps running the handler's coroutine, and the store and the tool
\* answer every request
FairSpecTransport == SpecTransport /\ WF_vars(TransportStep)

\* the transports of a process with or without the key of the LLM classifier
InitTransportClassifier ==
    /\ settings \in [tool_allowlist : {{"weather.get"}},
                     rate_limit_tool_per_min : {MaxLimit},
                     rate_limit_chat_per_min : {MaxLimit},
                     openai_api_key : BOOLEAN,
                     moderation_enabled : {TRUE}]
    /\ registry = Registered({"weather.get"})
    /\ redis = [k \in Keys |-> NoEntry]
    /\ calls = [p \in Callers |-> IdleCall]
    /\ windows = [k \in Keys |-> NoWindow]
    /\ pc = "idle"
    /\ state = initial_state("", <<>>)
    /\ thread_id = ""
    /\ locals = NoLocals
    /\ out = <<>>
    /\ visited = <<>>
    /\ wx = NoWx
    /\ sock = NoSock
    /\ registrations = <<>>
    /\ applied = NotApplied
    /\ hook = NoHook
    /\ redis_client = NoClient
    /\ app = "up"

SpecTransportClassifier == InitTransportClassifier /\ [][NextTransport]_vars

-----------------------------------------------------------------------------
(* The WhatsApp webhook: POST /webhooks/whatsapp, for a request whose signature
   verify_twilio_signature has accepted *)

WhatsappIds == {"whatsapp:+15550001", "+15550001"}

\* whatsapp_id[9:] when whatsapp_id starts with "whatsapp:"
extract_phone_number(whatsapp_id) ==
    IF whatsapp_id = "whatsapp:+15550001" THEN "+15550001" ELSE whatsapp_id

HookBodies == SockMessages
HookCaller == "c2"

\* what client.messages.create does: it returns a message, or raises
ClientOutcomes == {"sid", "TwilioRestException", "Exception"}

\* send_whatsapp_message: ValueError ahead of the try block when no number is
\* configured; inside it, what get_twilio_client or the request raises is turned into
\* a result with success = False
send_whatsapp_message(twilio, o) ==
    IF ~twilio.whatsapp_number
    THEN [raised |-> TRUE, success |-> FALSE]
    ELSE IF ~twilio.account_sid
    THEN [raised |-> FALSE, success |-> FALSE]
    ELSE [raised |-> FALSE, success |-> o = "sid"]

\* the tokens of handle_turn that start with "[intent:"
IntentMarkers == {"[intent:" \o i \o "]" : i \in Intents}

\* the handler returns WebhookResponse(status=...) with the route's status code 200
Returned(h, status) == [h EXCEPT !.pc = "responded", !.http = 200, !.status = status]

\* an exception leaves the handler: the server answers 500 Internal Server Error
Raised(h) == [h EXCEPT !.pc = "responded", !.http = 500, !.status = "raised"]

\* `await send_whatsapp_message(From, text)` outside the try block, followed by the
\* return of the response `status`
SendThenReturn(h, kind, o, status) ==
    LET r == send_whatsapp_message(h.twilio, o)
        h1 == [h EXCEPT !.sends = Append(@, [kind |-> kind, raised |-> r.raised,
                                                success |-> r.success])]
    IN IF r.raised THEN Raised(h1) ELSE Returned(h1, status)

\* the except block of the handler: the error message is sent, then status "error"
ExceptBlock(h, o) == SendThenReturn(h, "error", o, "error")

\* get_redis and fixed_window_allow are called ahead of the try block: what
\* pipe.execute() raises when the store cannot be reached leaves the handler
RateLimitRaised(h, o) == Raised(h)

\* the handler up to its first await on the store: moderation, and the start of
\* fixed_window_allow
whatsapp_webhook ==
    /\ hook.pc = "idle"
    /\ pc = "idle"
    /\ sock.pc = "closed"
    /\ BelowCap
    /\ calls[HookCaller].pc = "idle"
    /\ \E From \in WhatsappIds, Body \in HookBodies, store_up \in BOOLEAN,
          o \in ClientOutcomes :
         LET h == [hook EXCEPT !.From = From, !.Body = Body, !.store_up = store_up,
                               !.response_parts = <<>>, !.sends = <<>>,
                               !.http = 0, !.status = ""]
             limit == settings.rate_limit_chat_per_min
         IN IF settings.moderation_enabled /\ ~check_message(Body)
            THEN /\ hook' = SendThenReturn(h, "blocked", o, "blocked")
                 /\ UNCHANGED calls
            ELSE IF limit > 0 /\ ~store_up
            THEN /\ hook' = RateLimitRaised(h, o)
                 /\ UNCHANGED calls
            ELSE /\ hook' = [h EXCEPT !.pc = "rate_limit"]
                 /\ calls' = [calls EXCEPT ![HookCaller] =
                                 fwa_enter([IdleCall EXCEPT !.op = "fixed_window_allow"],
                                           RlWhatsappKey(extract_phone_number(From)),
                                           limit, CHAT_WINDOW_SECONDS)]
    /\ UNCHANGED <<redis, windows, turnVars, confVars, wx, sock, registrations, applied,
                   redis_client, app>>

\* fixed_window_allow has returned: a denied message is answered with the rate limit
\* message, for an allowed one the handler starts to iterate handle_turn
webhook_rate_limited ==
    /\ hook.pc = "rate_limit"
    /\ calls[HookCaller].pc = "done"
    /\ calls' = [calls EXCEPT ![HookCaller] = IdleCall]
    /\ IF ~Val(calls[HookCaller].result).allowed
       THEN /\ \E o \in ClientOutcomes :
                 hook' = SendThenReturn(hook, "rate_limited", o, "rate_limited")
            /\ UNCHANGED turnVars
       ELSE /\ hook' = [hook EXCEPT !.pc = "turn"]
            /\ state' = initial_state(extract_phone_number(hook.From), hook.Body)
            /\ thread_id' = extract_phone_number(hook.From)
            /\ pc' = graph_edge("START")
            /\ out' = <<>>
            /\ visited' = <<>>
            /\ locals' = NoLocals
    /\ UNCHANGED <<redis, windows, confVars, wx, sock, registrations, applied, redis_client, app>>

\* the turn is over and handle_turn's generator is dropped
TurnDropped ==
    /\ pc' = "idle"
    /\ state' = initial_state("", <<>>)
    /\ thread_id' = ""
    /\ locals' = NoLocals
    /\ out' = <<>>
    /\ visited' = <<>>

\* handle_turn raises while the handler iterates it (the graph's run fails): the
\* except block
webhook_turn_raises ==
    /\ hook.pc = "turn"
    /\ pc \notin {"END", "call_tool.await"}
    /\ \E o \in ClientOutcomes : hook' = ExceptBlock(hook, o)
    /\ TurnDropped
    /\ UNCHANGED <<gateVars, confVars, wx, sock, registrations, applied, redis_client, app>>

\* handle_turn is exhausted: the handler joins the tokens that are not intent markers
\* and sends the text; a send that raises is caught by the except block, which sends
\* again
webhook_turn_done ==
    /\ hook.pc = "turn"
    /\ pc = "END"
    /\ \E o \in ClientOutcomes, o2 \in ClientOutcomes :
         LET parts == SelectSeq(out, LAMBDA token : token \notin IntentMarkers)
             r == send_whatsapp_message(hook.twilio, o)
             h1 == [hook EXCEPT !.response_parts = parts,
                                !.sends = Append(@, [kind |-> "response", raised |-> r.raised,
                                                     success |-> r.success])]
         IN hook' = IF r.raised THEN ExceptBlock(h1, o2)
                    ELSE IF ~r.success THEN Returned(h1, "send_failed")
                    ELSE Returned(h1, "success")
    /\ TurnDropped
    /\ UNCHANGED <<gateVars, confVars, wx, sock, registrations, applied, redis_client, app>>

\* the response is on its way to Twilio; the handler is ready for the next request
webhook_responded ==
    /\ hook.pc = "responded"
    /\ hook' = [NoHook EXCEPT !.twilio = hook.twilio]
    /\ UNCHANGED <<turnVars, gateVars, confVars, wx, sock, registrations, applied,
                   redis_client, app>>

\* the graph of the turn the handler iterates
WebhookTurnStep ==
    /\ hook.pc = "turn"
    /\ \/ setup_session_node
       \/ route_intent_node
       \/ extract_slots_node
       \/ validate_slots_node
       \/ ask_question_node
       \/ call_tool_node
       \/ call_tool_node_resume
       \/ generate_response_node

TwilioSettings == [whatsapp_number : BOOLEAN, account_sid : BOOLEAN]

InitWebhook ==
    /\ settings \in [tool_allowlist : {{"weather.get"}},
                     rate_limit_tool_per_min : {MaxLimit},
                     rate_limit_chat_per_min : 0..MaxLimit,
                     openai_api_key : {FALSE},
                     moderation_enabled : BOOLEAN]
    /\ registry = Registered({"weather.get"})
    /\ redis = [k \in Keys |-> NoEntry]
    /\ calls = [p \in Callers |-> IdleCall]
    /\ windows = [k \in Keys |-> NoWindow]
    /\ pc = "idle"
    /\ state = initial_state("", <<>>)
    /\ thread_id = ""
    /\ locals = NoLocals
    /\ out = <<>>
    /\ visited = <<>>
    /\ wx = NoWx
    /\ sock = NoSock
    /\ registrations = <<>>
    /\ applied = NotApplied
    /\ hook \in {[NoHook EXCEPT !.twilio = t] : t \in TwilioSettings}
    /\ redis_client = NoClient
    /\ app = "up"

NextWebhook ==
    \/ whatsapp_webhook
    \/ webhook_rate_limited
    \/ webhook_turn_raises
    \/ webhook_turn_done
    \/ webhook_responded
    \/ WebhookTurnStep
    \/ GatewayStep
    \/ TimePasses

SpecWebhook == InitWebhook /\ [][NextWebhook]_vars

-----------------------------------------------------------------------------
(* POST /chat, and the process that serves the four transports, one request at a time *)

\* ChatResponse(session_id, reply = "Echo: ...")
reply_frame(n) == [type |-> "reply", n |-> n, text |-> "Echo"]

\* POST /chat up to its first await on the store: moderation, which answers a blocked
\* message with 400, and the start of fixed_window_allow
chat ==
    /\ sock.pc = "closed"
    /\ hook.pc = "idle"
    /\ pc = "idle"
    /\ BelowCap
    /\ \E message \in SockMessages :
         LET req == [NoSock EXCEPT !.transport = "post", !.received = 1, !.message = message] IN
         IF settings.moderation_enabled /\ ~check_message(message)
         THEN /\ sock' = [req EXCEPT !.frames = <<error_frame(1, "Blocked by safety policy")>>,
                                     !.pc = "end"]
              /\ UNCHANGED calls
         ELSE /\ sock' = [req EXCEPT !.pc = "post.rate_limit"]
              /\ calls' = [calls EXCEPT ![SockCaller] =
                              fwa_enter([IdleCall EXCEPT !.op = "fixed_window_allow"],
                                        RlChatKey(SockSession),
                                        settings.rate_limit_chat_per_min, CHAT_WINDOW_SECONDS)]
    /\ UNCHANGED <<redis, windows, turnVars, confVars, wx, registrations, applied, hook,
                   redis_client, app>>

\* fixed_window_allow has returned: 429 for a denied message; an allowed one is routed
\* for the log and echoed, and no turn is run
chat_rate_limited ==
    /\ sock.pc = "post.rate_limit"
    /\ calls[SockCaller].pc = "done"
    /\ calls' = [calls EXCEPT ![SockCaller] = IdleCall]
    /\ sock' = [sock EXCEPT !.frames =
                              IF ~Val(calls[SockCaller].result).allowed
                              THEN <<error_frame(1, "Chat rate limit exceeded")>>
                              ELSE <<reply_frame(1)>>,
                            !.pc = "end"]
    /\ UNCHANGED <<redis, windows, turnVars, confVars, wx, registrations, applied, hook,
                   redis_client, app>>

\* the response of POST /chat is sent
chat_responded ==
    /\ sock.transport = "post"
    /\ sock.pc = "end"
    /\ sock' = NoSock
    /\ UNCHANGED <<turnVars, gateVars, confVars, wx, registrations, applied, hook,
                   redis_client, app>>

InitServer ==
    /\ settings \in [tool_allowlist : {{"weather.get"}},
                     rate_limit_tool_per_min : {MaxLimit},
                     rate_limit_chat_per_min : {1},
                     openai_api_key : {FALSE},
                     moderation_enabled : BOOLEAN]
    /\ registry = Registered({"weather.get"})
    /\ redis = [k \in Keys |-> NoEntry]
    /\ calls = [p \in Callers |-> IdleCall]
    /\ windows = [k \in Keys |-> NoWindow]
    /\ pc = "idle"
    /\ state = initial_state("", <<>>)
    /\ thread_id = ""
    /\ locals = NoLocals
    /\ out = <<>>
    /\ visited = <<>>
    /\ wx = NoWx
    /\ sock = NoSock
    /\ registrations = <<>>
    /\ applied = NotApplied
    /\ hook = NoHook
    /\ redis_client = NoClient
    /\ app = "up"

NextServer ==
    \/ chat
    \/ chat_rate_limited
    \/ chat_responded
    \/ connect
    \/ disconnect
    \/ receive
    \/ rate_limited
    \/ send_token
    \/ turn_done
    \/ TransportTurnStep
    \/ whatsapp_webhook
    \/ webhook_rate_limited
    \/ webhook_turn_raises
    \/ webhook_turn_done
    \/ webhook_responded
    \/ WebhookTurnStep
    \/ GatewayStep
    \/ TimePasses

SpecServer == InitServer /\ [][NextServer]_vars

-----------------------------------------------------------------------------
(* db/redis_client.py: the client of the store, one per event loop *)

\* the event loops of the process that call get_redis
Loops == {"loop1", "loop2", "loop3"}

\* the calls of get_redis the model follows
MaxGetRedis == 4

\* Redis.from_url(...): a new client object, the n-th the process has created; it
\* is used by the loop that made the call
from_url(n, loop) == [id |-> n, loop |-> loop]

\* variant: the client is created once and handed to every loop
get_redis_any_loop(g, loop) ==
    LET fresh == g._redis = None
        client == IF fresh THEN from_url(g.created + 1, loop) ELSE Val(g._redis)
    IN [_redis |-> Some(client),
        _redis_loop |-> IF fresh THEN Some(loop) ELSE g._redis_loop,
        created |-> IF fresh THEN g.created + 1 ELSE g.created,
        history |-> Append(g.history, [loop |-> loop, returned |-> client])]

\* get_redis called from the running loop `loop`: the globals after the call, and
\* the call with the client it returned added to the history
get_redis(g, loop) ==
    LET fresh == g._redis = None \/ g._redis_loop # Some(loop)
        client == IF fresh THEN from_url(g.created + 1, loop) ELSE Val(g._redis)
    IN [_redis |-> Some(client),
        _redis_loop |-> IF fresh THEN Some(loop) ELSE g._redis_loop,
        created |-> IF fresh THEN g.created + 1 ELSE g.created,
        history |-> Append(g.history, [loop |-> loop, returned |-> client])]

\* a coroutine of one of the loops awaits get_redis()
call_get_redis ==
    /\ Len(redis_client.history) < MaxGetRedis
    /\ \E loop \in Loops : redis_client' = get_redis(redis_client, loop)
    /\ UNCHANGED <<turnVars, gateVars, confVars, wx, sock, registrations, applied, hook, app>>

InitRedisClient ==
    /\ settings = [tool_allowlist |-> {}, rate_limit_tool_per_min |-> MaxLimit,
                   rate_limit_chat_per_min |-> MaxLimit, openai_api_key |-> FALSE,
                   moderation_enabled |-> TRUE]
    /\ registry = Registered({})
    /\ redis = [k \in Keys |-> NoEntry]
    /\ calls = [p \in Callers |-> IdleCall]
    /\ windows = [k \in Keys |-> NoWindow]
    /\ pc = "idle"
    /\ state = initial_state("", <<>>)
    /\ thread_id = ""
    /\ locals = NoLocals
    /\ out = <<>>
    /\ visited = <<>>
    /\ wx = NoWx
    /\ sock = NoSock
    /\ registrations = <<>>
    /\ applied = NotApplied
    /\ hook = NoHook
    /\ redis_client = NoClient
    /\ app = "up"

NextRedisClient == call_get_redis

SpecRedisClient == InitRedisClient /\ [][NextRedisClient]_vars

-----------------------------------------------------------------------------
(* main.py: the start of the process *)

\* the fields of a slot schema that hold slots; missing and ambiguities are the
\* schema's two lists of slot names
SlotFields(schema) == DOMAIN schema \ {"missing", "ambiguities"}

\* create_app(), run when main.py is imported: it prints the configuration and builds
\* the application with its middleware and routers; it looks at neither the priority
\* lists nor the slot schemas
create_app ==
    /\ app = "down"
    /\ app' = "up"
    /\ UNCHANGED <<turnVars, gateVars, confVars, wx, sock, registrations, applied, hook,
                   redis_client>>

\* the turns the started process serves
ServeStep ==
    /\ app = "up"
    /\ \/ handle_turn
       \/ TurnStep
       \/ TimePasses

InitStartup ==
    /\ settings \in [tool_allowlist : {{}, {"weather.get"}},
                     rate_limit_tool_per_min : {MaxLimit},
                     rate_limit_chat_per_min : {MaxLimit},
                     openai_api_key : {FALSE},
                     moderation_enabled : {TRUE}]
    /\ registry = Registered({"weather.get"})
    /\ redis = [k \in Keys |-> NoEntry]
    /\ calls = [p \in Callers |-> IdleCall]
    /\ windows = [k \in Keys |-> NoWindow]
    /\ pc = "idle"
    /\ state = initial_state("", <<>>)
    /\ thread_id = ""
    /\ locals = NoLocals
    /\ out = <<>>
    /\ visited = <<>>
    /\ wx = NoWx
    /\ sock = NoSock
    /\ registrations = <<>>
    /\ applied = NotApplied
    /\ hook = NoHook
    /\ redis_client = NoClient
    /\ app = "down"

NextStartup ==
    \/ create_app
    \/ ServeStep

SpecStartup == InitStartup /\ [][NextStartup]_vars

-----------------------------------------------------------------------------
(* The turn and the gateway with the weather tool's own body as the tool *)

\* the summaries of the reports the tool builds from a ValueError of the lookup
ERROR_SUMMARIES == {"Error: Location not found", "Error: Weather service timed out"}

\* a variant in which a lookup that failed reaches call_tool as an exception
weather_tool_outcome_error_raised(r) ==
    IF r.call.kind = "raise"
    THEN [kind |-> "raise", cls |-> None, value |-> EmptyDict]
    ELSE IF r.call.value.summary \in ERROR_SUMMARIES
    THEN [kind |-> "raise", cls |-> None, value |-> EmptyDict]
    ELSE [kind |-> "return", cls |-> Some("WeatherReport"), value |-> r.call.value]

\* what `await tool(args, ctx)` gives call_tool when the tool is WeatherTool: the
\* report it returned, an instance of WeatherReport, or the exception it raised
weather_tool_outcome(r) ==
    IF r.call.kind = "raise"
    THEN [kind |-> "raise", cls |-> None, value |-> EmptyDict]
    ELSE [kind |-> "return", cls |-> Some("WeatherReport"), value |-> r.call.value]

\* a variant in which a report served from the cache gives its unit of quota back
execute_weather_cached_free ==
    /\ \E p \in Callers :
        /\ calls[p].pc = "execute"
        /\ calls[p].name = "weather.get"
        /\ \E g \in GeocodeOutcomes, f \in FetchOutcomes :
            \E r \in {WeatherTool_call(wx.cache, wx.geo,
                                       [location |-> calls[p].args.location,
                                        date |-> Get(calls[p].args, "date")], g, f)} :
               /\ calls' = [calls EXCEPT ![p] = after_tool(calls[p], weather_tool_outcome(r))]
               /\ wx' = [cache |-> r.cache, geo |-> r.geo,
                         history |-> Last2(Append(wx.history, r.call))]
               /\ redis' = IF r.call.ran = <<>> /\ redis[calls[p].key].count > 0
                           THEN [redis EXCEPT ![calls[p].key].count = @ - 1]
                           ELSE redis
    /\ UNCHANGED <<windows, turnVars, confVars, sock, registrations, applied, hook,
                   redis_client, app>>

\* lines 41-47 of call_tool for weather.get: WeatherTool.__call__ runs on the validated
\* arguments, against the store's caches, and its result is validated
execute_weather ==
    /\ \E p \in Callers :
        /\ calls[p].pc = "execute"
        /\ calls[p].name = "weather.get"
        /\ \E g \in GeocodeOutcomes, f \in FetchOutcomes :
            \E r \in {WeatherTool_call(wx.cache, wx.geo,
                                       [location |-> calls[p].args.location,
                                        date |-> Get(calls[p].args, "date")], g, f)} :
               /\ calls' = [calls EXCEPT ![p] = after_tool(calls[p], weather_tool_outcome(r))]
               /\ wx' = [cache |-> r.cache, geo |-> r.geo,
                         history |-> Last2(Append(wx.history, r.call))]
    /\ UNCHANGED <<redis, windows, turnVars, confVars, sock, registrations, applied, hook,
                   redis_client, app>>

\* the store's steps of the rate limit
StoreStep ==
    /\ \E p \in Callers : Pipeline(p) \/ Expire(p)
    /\ UNCHANGED <<turnVars, confVars, toolVars>>

\* a turn of session s1 that asks for the weather of a place
handle_turn_weather ==
    /\ pc = "idle"
    /\ BelowCap
    /\ \E message \in WxCorpus : state' = initial_state("s1", message)
    /\ thread_id' = "s1"
    /\ pc' = graph_edge("START")
    /\ out' = <<>>
    /\ visited' = <<>>
    /\ locals' = NoLocals
    /\ UNCHANGED <<gateVars, confVars, toolVars>>

InitToolTurn ==
    /\ settings \in [tool_allowlist : {{"weather.get"}},
                     rate_limit_tool_per_min : 0..MaxLimit,
                     rate_limit_chat_per_min : {MaxLimit},
                     openai_api_key : {FALSE},
                     moderation_enabled : {TRUE}]
    /\ registry = Registered({"weather.get"})
    /\ redis = [k \in Keys |-> NoEntry]
    /\ calls = [p \in Callers |-> IdleCall]
    /\ windows = [k \in Keys |-> NoWindow]
    /\ pc = "idle"
    /\ state = initial_state("", <<>>)
    /\ thread_id = ""
    /\ locals = NoLocals
    /\ out = <<>>
    /\ visited = <<>>
    /\ wx = NoWx
    /\ sock = NoSock
    /\ registrations = <<>>
    /\ applied = NotApplied
    /\ hook = NoHook
    /\ redis_client = NoClient
    /\ app = "up"

NextToolTurn ==
    \/ handle_turn_weather
    \/ setup_session_node
    \/ route_intent_node
    \/ extract_slots_node
    \/ validate_slots_node
    \/ call_tool_node
    \/ call_tool_node_resume
    \/ handle_turn_end
    \/ StoreStep
    \/ execute_weather

SpecToolTurn == InitToolTurn /\ [][NextToolTurn]_vars

-----------------------------------------------------------------------------
(* Properties of the turn *)

Last(seq) == seq[Len(seq)]
Occurrences(x, seq) == Cardinality({i \in 1..Len(seq) : seq[i] = x})
\* the first position of x in seq, 0 when it is not there
Pos(x, seq) == IF \E i \in 1..Len(seq) : seq[i] = x
               THEN Min({i \in 1..Len(seq) : seq[i] = x}) ELSE 0

TerminalNodes == {"ask_question", "call_tool", "generate_response"}
Nodes == TerminalNodes \cup {"setup_session", "route_intent", "extract_slots", "validate_slots"}
Terminals(seq) == {i \in 1..Len(seq) : seq[i] \in TerminalNodes}
\* the node the turn is at
Node == IF pc = "call_tool.await" THEN "call_tool" ELSE pc
IntentMarker == "[intent:" \o Val(state.intent) \o "]"

\* C1: a TRAVEL turn that ends in ask_question asks about the first slot, in
\* TRAVEL_PRIORITY order (depart_date, destination, origin, return_date, pax_adults,
\* cabin), among the turn's missing or ambiguous slots; so it asks for the departure
\* date whenever depart_date is missing.
C1_TravelAsksByPriority ==
    (pc = "END" /\ state.intent = Some("TRAVEL") /\ Last(visited) = "ask_question")
        => /\ state.final_response =
                Some(travel_question(
                        Val(next_missing(locals.missing \o locals.ambiguities, TRAVEL_PRIORITY))))
           /\ InList("depart_date", locals.missing)
                => state.final_response = Some(travel_question("depart_date"))

\* C2: every turn runs to END; it never runs a node twice, runs at most one of
\* ask_question, call_tool and generate_response while on its way and exactly one of
\* them, once, by the time it ends, and so produces at most one question.
C2_OneTerminalNodeThenEnd ==
    /\ [](/\ \A n \in Nodes : Occurrences(n, visited) <= 1
          /\ Cardinality(Terminals(visited)) <= 1
          /\ pc = "END" => /\ Cardinality(Terminals(visited)) = 1
                           /\ Last(visited) \in TerminalNodes
          /\ pc \notin {"END", "idle"} => Terminals(visited) = {})
    /\ (pc = "setup_session") ~> (pc = "END")

C2_Witness ==
    /\ pc = "END"
    /\ visited = <<"setup_session", "route_intent", "extract_slots", "validate_slots",
                   "ask_question">>

\* C3: the tokens of a finished turn are the one marker [intent:<INTENT>] followed by
\* the one final response, which is not empty; before the turn's end nothing but the
\* marker has been yielded.  This holds when the tool call fails, too.
C3_MarkerThenOneResponse ==
    /\ pc = "END" => /\ Len(out) = 2
                     /\ out[1] = IntentMarker
                     /\ state.final_response # None
                     /\ out[2] = Val(state.final_response)
                     /\ out[2] # ""
    /\ pc \notin {"END", "idle"} => (out = <<>> \/ out = <<IntentMarker>>)
    /\ pc \in {"idle", "setup_session", "route_intent"} => out = <<>>

C3_Witness ==
    /\ pc = "END"
    /\ out = <<"[intent:WEATHER]",
               "Sorry, I couldn't fetch the weather: Tool 'weather.get' is not allowed">>

\* C4: a turn classified SMALLTALK or OTHER runs setup_session, route_intent and
\* generate_response only; its slots stay empty, it makes no call of the tool gateway
\* and no hit on a rate-limit counter, and the SMALLTALK response is the greeting.
C4_SmalltalkOtherRespondDirectly ==
    state.intent \in {Some("SMALLTALK"), Some("OTHER")}
        => /\ \A i \in 1..Len(visited) :
                visited[i] \in {"setup_session", "route_intent", "generate_response"}
           /\ pc \in {"generate_response", "END"}
           /\ pc = "END" => visited = <<"setup_session", "route_intent", "generate_response">>
           /\ state.slots = EmptyDict
           /\ state.missing_slots = <<>>
           /\ state.tool_result = None
           /\ \A p \in Callers : calls[p] = IdleCall
           /\ (pc = "END" /\ state.intent = Some("SMALLTALK"))
                => out = <<"[intent:SMALLTALK]",
                           "Hello! How can I help you today? I can assist with travel or weather.">>

C4_Witness ==
    /\ pc = "END"
    /\ state.intent = Some("SMALLTALK")
    /\ visited = <<"setup_session", "route_intent", "generate_response">>
    /\ \E k \in Keys : redis[k].count > 0

-----------------------------------------------------------------------------
(* Properties of validate_slots_node *)

\* C5: after validate_slots, for the intents TRAVEL and WEATHER, the next node is
\* ask_question if and only if a slot is missing or ambiguous, and call_tool
\* otherwise; it is never generate_response.
C5_ValidationRoutes ==
    (visited # <<>> /\ Last(visited) = "validate_slots"
        /\ state.intent \in {Some("TRAVEL"), Some("WEATHER")})
        => /\ Node \in {"ask_question", "call_tool"}
           /\ Node = "ask_question" <=> (locals.missing \o locals.ambiguities) # <<>>

C5_Witness ==
    /\ visited # <<>> /\ Last(visited) = "validate_slots"
    /\ state.intent = Some("TRAVEL")
    /\ locals.missing = <<>> /\ locals.ambiguities = <<>>
    /\ Node = "call_tool"

-----------------------------------------------------------------------------
(* Properties of the tool gateway and the rate limiter *)

ToolCalls == {p \in Callers : calls[p].op = "call_tool"}
\* the steps in which caller p enters call_tool and leaves it with error e at once
RaisesAtOnce(p, e) ==
    /\ calls[p].pc \in {"idle", "done"}
    /\ calls'[p] # calls[p]
    /\ calls'[p].error = Some(e)

\* C7: call_tool for a name that is not on the allow-list raises PermissionError
\* without a hit on any counter, without validating the payload and without running
\* the tool, whatever the payload, the principal and the registry are.
C7_UnlistedToolRejected ==
    /\ [](\A p \in ToolCalls :
            calls[p].name \notin settings.tool_allowlist
                => /\ calls[p].pc = "done"
                   /\ calls[p].error = Some("PermissionError")
                   /\ calls[p].trace = <<>>
                   /\ calls[p].result = None)
    /\ [][\A p \in Callers : RaisesAtOnce(p, "PermissionError") => redis' = redis]_vars

C7_Witness ==
    \E p \in ToolCalls :
        /\ calls[p].error = Some("PermissionError")
        /\ calls[p].name \in DOMAIN registry
        /\ valid_input(calls[p].name, calls[p].payload)
        /\ \E k \in Keys : redis[k].count > 0

\* C8: call_tool for an allow-listed, registered tool with a payload its input model
\* rejects raises the validation error before the rate limit is taken: the counters
\* and their expiries are what they were, and the tool is not run.
C8_InvalidPayloadRejectedFirst ==
    /\ [](\A p \in ToolCalls :
            (/\ calls[p].name \in settings.tool_allowlist
             /\ calls[p].name \in DOMAIN registry
             /\ ~valid_input(calls[p].name, calls[p].payload))
                => /\ calls[p].pc = "done"
                   /\ calls[p].error = Some("ValidationError(input)")
                   /\ calls[p].trace = <<"allowed">>
                   /\ calls[p].outcome = None
                   /\ calls[p].result = None)
    /\ [][\A p \in Callers : RaisesAtOnce(p, "ValidationError(input)") => redis' = redis]_vars

C8_Witness ==
    \E p \in ToolCalls :
        /\ calls[p].error = Some("ValidationError(input)")
        /\ calls[p].name = "weather.get"
        /\ redis[RlToolKey("weather.get", "s1")] = [count |-> 1, ttl |-> 30]

\* C9: a tool runs only after, in this order, the allow-list check passed, the
\* payload was validated and the rate limit allowed the call; with a limit L > 0 the
\* calls of a window that get to the tool are exactly its first L valid ones, and the
\* next one raises RateLimitError with the time the window has left, the tool not run.
C9_ChecksBeforeExecution ==
    \A p \in ToolCalls :
        LET c == calls[p] IN
        /\ (c.pc = "execute" \/ Pos("executed", c.trace) > 0)
              => /\ c.name \in settings.tool_allowlist
                 /\ valid_input(c.name, c.payload)
                 /\ Val(c.outcome).allowed
                 /\ 0 < Pos("allowed", c.trace)
                 /\ Pos("allowed", c.trace) < Pos("validated_in", c.trace)
                 /\ Pos("validated_in", c.trace) < Pos("rate_ok", c.trace)
                 /\ Pos("executed", c.trace) > 0
                       => Pos("rate_ok", c.trace) < Pos("executed", c.trace)
        /\ (c.limit > 0 /\ c.outcome # None)
              => /\ c.nth <= c.limit => c.pc = "execute" \/ Pos("executed", c.trace) > 0
                 /\ c.nth > c.limit => /\ c.pc = "done"
                                       /\ c.error = Some("RateLimitError")
                                       /\ c.reset = Some(c.left)
                                       /\ Pos("executed", c.trace) = 0
                                       /\ c.result = None

C9_Witness ==
    \E p \in ToolCalls :
        /\ calls[p].limit = 2
        /\ calls[p].nth = 3
        /\ calls[p].error = Some("RateLimitError")
        /\ calls[p].reset = Some(30)

\* C10: with a limit L > 0, the calls of fixed_window_allow on a key, one after the
\* other, are allowed for the first L of a window and denied from call L + 1 on, and
\* the first call after the window has run out is allowed with the count back at 1.
C10_FirstLAllowedThenDenied ==
    /\ \A p \in Callers :
         LET c == calls[p] IN
         (c.limit > 0 /\ c.outcome # None)
            => /\ c.count = c.nth
               /\ Val(c.outcome).allowed <=> c.nth <= c.limit
               /\ c.after_expiry => (c.nth = 1 /\ c.count = 1 /\ Val(c.outcome).allowed)
    /\ \A k \in Keys :
         \A i \in 1..Len(windows[k].log) :
            LET o == windows[k].log[i].outcome IN
            o.limit > 0 => (o.allowed <=> i <= o.limit)

C10_Witness ==
    /\ calls[DirectCaller].op = "fixed_window_allow"
    /\ calls[DirectCaller].pc = "done"
    /\ calls[DirectCaller].after_denial
    /\ Val(calls[DirectCaller].result).allowed
    /\ redis[calls[DirectCaller].key].count = 1

\* C11: under every interleaving of fixed_window_allow calls on one key, each outcome
\* is decided from the count returned by the call's one atomic increment (allowed
\* exactly when that count is at most the limit), the call makes no other access to
\* the counter before its decision, and of the calls whose increment fell on one
\* counter (from the key's creation to its expiry) at most L are allowed, for L > 0.
C11_AtMostLAllowedConcurrently ==
    /\ \A p \in Callers :
         LET c == calls[p] IN
         (c.limit > 0 /\ c.outcome # None)
            => /\ Occurrences("incr", c.trace) = 1
               /\ c.count >= 1
               /\ Val(c.outcome).allowed <=> c.count <= c.limit
    /\ \A k \in Keys :
         /\ k = RlChatKey("s1") => windows[k].granted <= settings.rate_limit_chat_per_min
         /\ k # RlChatKey("s1")
              => (settings.rate_limit_tool_per_min > 0
                    => windows[k].granted <= settings.rate_limit_tool_per_min)

\* two overlapping calls on one key with limit 1: the second to increment has been
\* denied while the first has not yet set the expiry
C11_Witness ==
    /\ calls["c1"].pc = "expire"
    /\ calls["c1"].count = 1
    /\ calls["c2"].key = calls["c1"].key
    /\ calls["c2"].limit = 1
    /\ calls["c2"].count = 2
    /\ calls["c2"].outcome # None
    /\ ~Val(calls["c2"].outcome).allowed

-----------------------------------------------------------------------------
(* Properties of the turn's tool call and of the classification *)

\* what call_tool can raise
GatewayErrors ==
    {"PermissionError", "KeyError", "ValidationError(input)", "RateLimitError",
     "ToolError", "ValidationError(output)"}
Apology == "Sorry, I couldn't fetch the weather: "
\* a call of the gateway that has failed with error e
FailedCall(e) ==
    [IdleCall EXCEPT !.op = "call_tool", !.name = "weather.get", !.pc = "done",
                     !.error = Some(e), !.reset = Some(TOOL_WINDOW_SECONDS)]

\* C12: when the gateway call of a WEATHER turn fails, whatever it raises (rate limit,
\* rejected input, permission, missing tool, tool failure, rejected output), the step
\* of call_tool_node that receives the failure ends the turn with the apology
\* "Sorry, I couldn't fetch the weather: <error>" as its final response, yielded after
\* the marker; a turn that waits for the gateway is never left with a call that
\* neither returns nor raises.
C12_ToolFailureStillAnswers ==
    /\ \A e \in GatewayErrors :
          weather_response(FailedCall(e)).final_response
              = Some(Apology \o error_text(FailedCall(e)))
    /\ [](pc = "call_tool.await"
            => /\ state.intent = Some("WEATHER")
               /\ calls[TurnCaller].pc \in {"pipeline", "expire", "execute", "done"}
               /\ calls[TurnCaller].pc = "done"
                    => (calls[TurnCaller].error = None <=> calls[TurnCaller].result # None))
    /\ [][(pc = "call_tool.await" /\ pc' # pc /\ calls[TurnCaller].error # None)
            => /\ pc' = "END"
               /\ state'.final_response = Some(Apology \o error_text(calls[TurnCaller]))
               /\ Val(state'.final_response) # ""
               /\ out' = <<"[intent:WEATHER]", Val(state'.final_response)>>]_vars

C12_Witness ==
    /\ pc = "END"
    /\ out = <<"[intent:WEATHER]",
               "Sorry, I couldn't fetch the weather: Rate limit exceeded for weather.get. Try again in 30s.">>

\* C13: when the LLM classifier is configured and its call raises, route_intent_node
\* returns all the same: the intent of the turn is the keyword baseline's intent for
\* the turn's message, the turn goes on from route_intent as for that intent, and it
\* ends with the marker of that intent and a non-empty response.
C13_ClassifierFailureFallsBack ==
    /\ [](locals.llm = Some("raise")
            => /\ settings.openai_api_key
               /\ state.intent = Some(_keyword_route(last_message(state)))
               /\ visited[2] = "route_intent"
               /\ Len(visited) = 2 => pc = should_extract_slots(state)
               /\ pc = "END"
                    => /\ out = <<"[intent:" \o _keyword_route(last_message(state)) \o "]",
                                  Val(state.final_response)>>
                       /\ Val(state.final_response) # "")
    /\ (locals.llm = Some("raise")) ~> (pc = "END")

C13_Witness ==
    /\ pc = "END"
    /\ locals.llm = Some("raise")
    /\ state.intent = Some("WEATHER")
    /\ Last(visited) = "call_tool"

-----------------------------------------------------------------------------
(* End-to-end scenarios *)

\* a turn is running with intent WEATHER on a message that yields no location
WeatherTurnWithoutLocation ==
    /\ pc # "idle"
    /\ state.intent = Some("WEATHER")
    /\ extract_slots_of[last_message(state)]["WEATHER"].slots.location = None

\* C14: a WEATHER turn whose message yields no location yields the marker
\* [intent:WEATHER] first and the question "Which city should I check the weather
\* for?" as its response, by way of ask_question; it never enters the tool gateway:
\* no call is made, no tool runs and no rate-limit counter is incremented.
C14_WeatherWithoutLocationAsks ==
    /\ [](WeatherTurnWithoutLocation
            => /\ pc \in {"extract_slots", "validate_slots", "ask_question", "END"}
               /\ calls[TurnCaller] = IdleCall
               /\ state.tool_result = None
               /\ out # <<>> /\ out[1] = "[intent:WEATHER]"
               /\ pc = "END"
                    => /\ out = <<"[intent:WEATHER]",
                                  "Which city should I check the weather for?">>
                       /\ visited = <<"setup_session", "route_intent", "extract_slots",
                                      "validate_slots", "ask_question">>)
    /\ [][WeatherTurnWithoutLocation
            => \A k \in Keys : redis'[k].count <= redis[k].count]_vars

C14_Witness ==
    /\ pc = "END"
    /\ state.messages = <<<<"What's", "the", "weather?">>>>
    /\ state.intent = Some("WEATHER")
    /\ out = <<"[intent:WEATHER]", "Which city should I check the weather for?">>
    /\ \E k \in Keys : redis[k].count > 0

\* C15: in a WEATHER turn on a message that gives a location and the word "today"
\* or "tomorrow" (such as "weather in Toronto tomorrow"), the turn goes from
\* validate_slots to call_tool, and the gateway is called for weather.get with the
\* extracted location and with a date that is not null.
C15_RelativeDateReachesTool ==
    LET extracted == extract_slots_of[last_message(state)]["WEATHER"].slots IN
    (/\ pc # "idle"
     /\ state.intent = Some("WEATHER")
     /\ extracted.location # None
     /\ extracted.date \in {Some("today"), Some("tomorrow")})
        => /\ (visited # <<>> /\ Last(visited) = "validate_slots") => Node = "call_tool"
           /\ pc = "call_tool.await"
                => /\ calls[TurnCaller].name = "weather.get"
                   /\ calls[TurnCaller].payload.location = extracted.location
                   /\ calls[TurnCaller].payload.date # None


\* C16: in the TRAVEL turn on "Find flights from London to Toronto", the slots
\* extracted have an origin and a destination and no depart_date and no pax_adults;
\* the slots validate_slots finds missing are exactly depart_date and pax_adults,
\* and the turn ends with the question for the departure date.
C16_FlightsLondonToronto ==
    (/\ state.messages = <<<<"Find", "flights", "from", "London", "to", "Toronto">>>>
     /\ state.intent = Some("TRAVEL"))
        => /\ (Len(visited) >= 3 /\ visited[3] = "extract_slots")
                => /\ state.slots.origin # None
                   /\ state.slots.destination # None
                   /\ Len(visited) = 3 => /\ state.slots.depart_date = None
                                           /\ state.slots.pax_adults = None
           /\ (Len(visited) >= 4 /\ visited[4] = "validate_slots")
                => SetOf(locals.missing) = {"depart_date", "pax_adults"}
           /\ pc = "END"
                => /\ Last(visited) = "ask_question"
                   /\ state.final_response = Some(travel_question("depart_date"))

-----------------------------------------------------------------------------
(* Properties of the weather tool's cache *)

\* the two calls of the history, when two have been made
TwoCalls == Len(wx.history) = 2
FirstCall == wx.history[1]
SecondCall == wx.history[2]
IsErrorReport(call) ==
    call.kind = "return" /\ \E o \in GeocodeOutcomes \cup FetchOutcomes :
                                IsValueError(o) /\ call.value.summary = "Error: " \o ErrorText(o)
\* the call returned a report that its own lookup produced
LookedUp(call) == call.kind = "return" /\ ~IsErrorReport(call) /\ call.ran # <<>>
\* the second call returned what the first returned, without running the lookup
ServedAgain ==
    /\ SecondCall.kind = FirstCall.kind
    /\ SecondCall.value = FirstCall.value
    /\ SecondCall.ran = <<>>

\* C17 as stated: of two calls of the weather tool, one after the other with the same
\* location and date and less than the cache lifetime apart, the second returns what
\* the first returned and runs neither the geocoding nor the fetch, whatever the first
\* call's outcome was.
C17_SecondCallServedFromCache ==
    (TwoCalls /\ SecondCall.q = FirstCall.q /\ SecondCall.gap < WX_TTL) => ServedAgain

\* C17, amended: of two calls of the weather tool, one after the other with the same
\* location and date, the second returns what the first returned and runs neither the
\* geocoding nor the fetch when the first call's report was in the cache and had not run
\* out: a report that the first call looked up itself stays there for the cache lifetime,
\* one that the first call took from the cache for the time it then had left.  An error
\* report and an exception are never cached.
C17_CachedReportServedAgain ==
    /\ \A i \in 1..Len(wx.history) :
          LET call == wx.history[i]
          IN /\ LookedUp(call) => call.fresh_for = WX_TTL
             /\ (call.kind = "raise" \/ IsErrorReport(call)) => call.fresh_for = 0
    /\ (TwoCalls /\ SecondCall.q = FirstCall.q) =>
          /\ (LookedUp(FirstCall) /\ SecondCall.gap < WX_TTL) => ServedAgain
          /\ SecondCall.gap < FirstCall.fresh_for => ServedAgain

\* the first call looked its report up, and the second, ten minutes later, returned it
\* from the cache
C17_Witness ==
    /\ TwoCalls
    /\ SecondCall.q = FirstCall.q
    /\ LookedUp(FirstCall)
    /\ FirstCall.value.summary = "Cloudy"
    /\ SecondCall.gap = 600
    /\ SecondCall.ran = <<>>
    /\ SecondCall.value = FirstCall.value

-----------------------------------------------------------------------------
(* Properties of the frames of a connection *)

\* the frames sent on the connection for its n-th message, in the order sent
FramePositions(n) == {i \in 1..Len(sock.frames) : sock.frames[i].n = n}
RECURSIVE FramesFrom(_, _)
FramesFrom(n, i) ==
    IF i > Len(sock.frames) THEN <<>>
    ELSE IF sock.frames[i].n = n THEN <<sock.frames[i]>> \o FramesFrom(n, i + 1)
    ELSE FramesFrom(n, i + 1)
FramesOf(n) == FramesFrom(n, 1)
\* the handler is through with the connection's n-th message
Answered(n) == n < sock.received \/ (n = sock.received /\ sock.pc \in {"receive", "end"})
\* the n-th message passed moderation and the chat rate limit
Passed(n) == \E i \in FramePositions(n) : sock.frames[i].type = "route"

\* route, then tokens, then at most one done, which is the last
WellOrdered(block) ==
    /\ block[1].type = "route"
    /\ \A i \in 2..Len(block) : block[i].type \in {"token", "done"}
    /\ \A i \in 1..Len(block) : block[i].type = "done" => i = Len(block)

\* C18: on an SSE response and on a WebSocket, the frames of a turn that passed
\* moderation and the chat rate limit are one route frame, then the turn's token
\* frames, then one done frame, which every such turn gets to; nothing follows the done
\* frame in the turn, and the frames of one message are never mixed with those of another.
C18_RouteTokensDone ==
    /\ [](\A n \in 1..sock.received :
            /\ \A i, j \in 1..Len(sock.frames) :
                  (i < j /\ sock.frames[j].n = n) => sock.frames[i].n <= n
            /\ Passed(n) =>
                  /\ WellOrdered(FramesOf(n))
                  /\ Answered(n) <=> FramesOf(n)[Len(FramesOf(n))].type = "done"
                  /\ (n = sock.received /\ sock.pc = "turn") =>
                        FramesOf(n) = <<route_frame(n, route(sock.message))>>
                                      \o [k \in 1..sock.sent |-> token_frame(n, out[k])]
            /\ (~Passed(n) /\ Answered(n)) =>
                  (Len(FramesOf(n)) = 1 /\ FramesOf(n)[1].type = "error"))
    /\ [][sock'.pc = "turn" =>
            /\ sock.pc \in {"rate_limit", "turn"}
            /\ sock.pc = "rate_limit" => Val(calls[SockCaller].result).allowed]_vars
    /\ (sock.pc = "turn") ~> (sock.pc # "turn")

\* a WebSocket has answered two turns, each with its route frame, its two token frames
\* and its done frame, the second turn's after the first's
C18_Witness ==
    /\ sock.transport = "ws"
    /\ sock.received = 2
    /\ sock.pc = "receive"
    /\ Len(sock.frames) = 8
    /\ \A n \in 1..2 :
          /\ [i \in 1..4 |-> FramesOf(n)[i].type] = <<"route", "token", "token", "done">>
          /\ FramesOf(n)[2].text = "[intent:WEATHER]"
    /\ sock.frames[5].n = 2

-----------------------------------------------------------------------------
(* Properties of the gateway's output validation *)

\* the model the caller of call c asked for, else the one its tool declares
AskedModel(c) == IF c.expected_model # None THEN Val(c.expected_model) ELSE output_model(c.name)
\* v is an instance of model: it has exactly the model's fields
IsInstance(v, model) == DOMAIN v = ModelFields(model)
\* what the tool returned is acceptable to model: an instance of it, or a dict that has
\* its fields
Acceptable(o, model) ==
    \/ o.cls = Some(model)
    \/ o.cls = None /\ \A f \in ModelFields(model) : f \in DOMAIN o.value

\* C19: what call_tool returns is an instance of the expected_model of the call when
\* there is one, else of the tool's output_model, made of the values the tool returned;
\* when the tool's return value does not validate against that model the call returns
\* nothing and fails with the validation error.
C19_ResultValidatedAgainstModel ==
    \A p \in Callers :
        LET c == calls[p] IN
        (c.op = "call_tool" /\ c.native # None) =>
            /\ c.pc = "done"
            /\ IF Acceptable(Val(c.native), AskedModel(c))
               THEN /\ c.error = None
                    /\ c.result # None
                    /\ c.model = Some(AskedModel(c))
                    /\ IsInstance(Val(c.result), AskedModel(c))
                    /\ \A f \in DOMAIN Val(c.result) : Val(c.result)[f] = Val(c.native).value[f]
               ELSE /\ c.result = None
                    /\ c.error = Some("ValidationError(output)")

\* the echo tool returned a dict with a key more than its model has, and the caller,
\* who asked for AlternateOut, got an instance of AlternateOut without that key
C19_Witness ==
    /\ calls[DirectCaller].name = "echo.tool"
    /\ calls[DirectCaller].expected_model = Some("AlternateOut")
    /\ calls[DirectCaller].native # None
    /\ "note" \in DOMAIN Val(calls[DirectCaller].native).value
    /\ calls[DirectCaller].model = Some("AlternateOut")
    /\ calls[DirectCaller].result = Some([text |-> "a"])

-----------------------------------------------------------------------------
(* Properties of the registry *)

\* the positions, in the history, of the calls of register with a tool named name
RegisteredAs(name) == {i \in 1..Len(registrations) : registrations[i].tool.name = name}

\* C20: after any calls of register the registry holds, under each name that a call
\* was made with, the tool of the first of these calls and no other; a call with a tool
\* whose name is already in the registry raises and leaves the registry as it was.
C20_FirstRegistrationWins ==
    /\ [](/\ DOMAIN registry = {registrations[i].tool.name : i \in 1..Len(registrations)}
          /\ \A name \in DOMAIN registry :
                registry[name] = registrations[Min(RegisteredAs(name))].tool
          /\ \A i \in 1..Len(registrations) :
                registrations[i].raised <=> i # Min(RegisteredAs(registrations[i].tool.name)))
    /\ [][(Len(registrations') = Len(registrations) + 1) =>
            LET tool == registrations'[Len(registrations')].tool IN
            IF tool.name \in DOMAIN registry
            THEN registrations'[Len(registrations')].raised /\ registry' = registry
            ELSE /\ ~registrations'[Len(registrations')].raised
                 /\ DOMAIN registry' = DOMAIN registry \cup {tool.name}
                 /\ registry'[tool.name] = tool
                 /\ \A n \in DOMAIN registry : registry'[n] = registry[n]]_vars

\* a second tool named weather.get was turned away, and the registry holds the first
C20_Witness ==
    /\ Len(registrations) = 2
    /\ registrations[1].tool = [name |-> "weather.get", id |-> "t1"]
    /\ registrations[2].tool = [name |-> "weather.get", id |-> "t2"]
    /\ registrations[2].raised
    /\ registry = Registered({"weather.get"})

-----------------------------------------------------------------------------
(* Properties of consecutive turns *)

\* the state of a turn after its validation (after its routing when it extracts no
\* slots), computed from the message and the intent alone
FreshTurn ==
    [message \in Corpus |->
        [intent \in Intents |->
            LET routed == Merge(initial_state("", message),
                                [intent |-> Some(intent), slots |-> EmptyDict,
                                 missing_slots |-> <<>>])
            IN IF should_extract_slots(routed) = "extract_slots"
               THEN LET extracted == Merge(routed, extract_slots_of[message][intent])
                    IN Merge(extracted,
                             validate_slots_output(validate_slots(extracted.intent,
                                                                  extracted.slots)))
               ELSE routed]]

\* the terminal node of such a turn
FreshTerminal(fresh) ==
    IF should_extract_slots(fresh) = "extract_slots" THEN route_after_validation(fresh)
    ELSE "generate_response"

-----------------------------------------------------------------------------
(* Properties of the pure functions *)

Applied(fn) == applied.fn = fn /\ applied.done

\* C22: the keyword classifier, in nodes.py and in router.py, answers TRAVEL for a
\* text with a travel keyword, whatever else the text holds, WEATHER for one with a
\* weather keyword and no travel keyword, SMALLTALK for one with a greeting and
\* neither, and OTHER for every other text: always one of the four intents.
C22_KeywordPriority ==
    (Applied("_keyword_route") \/ Applied("route")) =>
        LET text == applied.args[1]
            Has(kw) == \E i \in 1..Len(text) : text[i] \in kw
        IN /\ applied.result \in {"TRAVEL", "WEATHER", "SMALLTALK", "OTHER"}
           /\ Has(TRAVEL_KW) => applied.result = "TRAVEL"
           /\ (Has(WEATHER_KW) /\ ~Has(TRAVEL_KW)) => applied.result = "WEATHER"
           /\ (Has(GREETING_KW) /\ ~Has(WEATHER_KW) /\ ~Has(TRAVEL_KW)) =>
                 applied.result = "SMALLTALK"
           /\ (~Has(GREETING_KW) /\ ~Has(WEATHER_KW) /\ ~Has(TRAVEL_KW)) =>
                 applied.result = "OTHER"

\* a text with a weather keyword ahead of a travel keyword is TRAVEL
C22_Witness ==
    /\ Applied("_keyword_route")
    /\ applied.args[1] = <<"weather", "flights">>
    /\ applied.result = "TRAVEL"

\* the positions in priority of the slots that are among the candidates
Ranks(slots, priority) == {i \in 1..Len(priority) : priority[i] \in SetOf(slots)}

\* C23: next_missing returns the candidate that comes first in the priority list, and
\* null when no candidate is in the list (so when there is no candidate); two candidate
\* lists with the same elements, in any order and number, get the same answer.
C23_NextMissingBySet ==
    Applied("next_missing") =>
        LET slots == applied.args[1]
            priority == applied.args[2]
            again == applied.args[3]
        IN /\ applied.result[1] = IF Ranks(slots, priority) = {} THEN None
                                  ELSE Some(priority[Min(Ranks(slots, priority))])
           /\ slots = <<>> => applied.result[1] = None
           /\ SetOf(again) = SetOf(slots) => applied.result[2] = applied.result[1]

\* origin ahead of depart_date, and the two the other way round: depart_date both times
C23_Witness ==
    /\ Applied("next_missing")
    /\ applied.args = <<<<"origin", "depart_date">>, TRAVEL_PRIORITY, <<"depart_date", "origin">>>>
    /\ applied.result = <<Some("depart_date"), Some("depart_date")>>

\* C24: normalise_pax(null) is (null, null); for the integers n from -5 to 15 it is
\* (null, "invalid-pax") when n <= 0, (null, "too-many-pax") when n > 9, else (n, null).
C24_NormalisePax ==
    Applied("normalise_pax") =>
        LET n == applied.args[1] IN
        applied.result = IF n = None THEN <<None, None>>
                         ELSE IF Val(n) \in -5..0 THEN <<None, Some("invalid-pax")>>
                         ELSE IF Val(n) \in 10..15 THEN <<None, Some("too-many-pax")>>
                         ELSE <<Some(Val(n)), None>>

\* nine passengers are accepted
C24_Witness ==
    /\ Applied("normalise_pax")
    /\ applied.args = <<Some(9)>>
    /\ applied.result = <<Some(9), None>>

\* C25: normalise_date(null) is (null, null); "next W" is (null, "ambiguous-relative")
\* for every weekday name W; an ISO date is returned as it is, without error; and for a
\* raw date that is not null exactly one of the value and the error is not null.
C25_NormaliseDate ==
    Applied("normalise_date") =>
        LET raw == applied.args[1] IN
        /\ raw = None => applied.result = <<None, None>>
        /\ (raw # None /\ Val(raw) \in NEXT_WEEKDAY_DATES) =>
              applied.result = <<None, Some("ambiguous-relative")>>
        /\ raw = Some("2025-06-01") => applied.result = <<raw, None>>
        /\ raw # None => (applied.result[1] = None) # (applied.result[2] = None)

\* "next Friday" is ambiguous
C25_Witness ==
    /\ Applied("normalise_date")
    /\ applied.args = <<Some("next Friday")>>
    /\ applied.result = <<None, Some("ambiguous-relative")>>

-----------------------------------------------------------------------------
(* Properties of the webhook *)

\* C26: the webhook handler answers every signature-verified inbound message with a
\* 2xx status, also when an internal step fails (the store or the rate limit check,
\* the turn, the outbound send).
C26_AlwaysAcknowledged ==
    hook.pc = "responded" => hook.http \in 200..299

-----------------------------------------------------------------------------
(* Properties of get_redis *)

GetRedisCalls == 1..Len(redis_client.history)
GetRedisCall(i) == redis_client.history[i]

\* the client returned to call i was created by that call
CreatedBy(i) ==
    /\ \A j \in 1..(i - 1) : GetRedisCall(j).returned # GetRedisCall(i).returned
    /\ GetRedisCall(i).returned.loop = GetRedisCall(i).loop

\* the stored client is the one returned last, made for the loop that called last
StoredForLastCaller ==
    redis_client.history # <<>> =>
        LET last == GetRedisCall(Len(redis_client.history)) IN
        /\ redis_client._redis = Some(last.returned)
        /\ redis_client._redis_loop = Some(last.loop)
        /\ last.returned.loop = last.loop

\* a call from another loop than the one the current client was created for gets a
\* new client
NewClientOnOtherLoop ==
    \A i \in GetRedisCalls :
        (i > 1 /\ GetRedisCall(i).loop # GetRedisCall(i - 1).returned.loop) => CreatedBy(i)

\* C27 as stated: every two calls made within one event loop return the same client
\* object; a call from another loop than the one that created the current client
\* creates and returns a new client bound to that loop; the stored client is the one
\* created for the most recent calling loop.
C27_SameClientWithinLoop ==
    /\ \A i, j \in GetRedisCalls :
          GetRedisCall(i).loop = GetRedisCall(j).loop
              => GetRedisCall(i).returned = GetRedisCall(j).returned
    /\ NewClientOnOtherLoop
    /\ StoredForLastCaller

\* C27, amended: calls made within one event loop return the same client object as
\* long as no call from another loop comes between them; a call from another loop
\* than the one that created the current client creates and returns a new client
\* bound to that loop; the stored client is the one created for the most recent
\* calling loop.
C27_SameClientUntilOtherLoopCalls ==
    /\ \A i, j \in GetRedisCalls :
          (i < j /\ \A k \in i..j : GetRedisCall(k).loop = GetRedisCall(i).loop)
              => GetRedisCall(i).returned = GetRedisCall(j).returned
    /\ NewClientOnOtherLoop
    /\ StoredForLastCaller

\* two calls of loop1 get the first client, then a call of loop2 gets a second one
C27_Witness ==
    /\ Len(redis_client.history) = 3
    /\ GetRedisCall(1) = [loop |-> "loop1", returned |-> from_url(1, "loop1")]
    /\ GetRedisCall(2) = [loop |-> "loop1", returned |-> from_url(1, "loop1")]
    /\ GetRedisCall(3) = [loop |-> "loop2", returned |-> from_url(2, "loop2")]
    /\ redis_client._redis = Some(from_url(2, "loop2"))

-----------------------------------------------------------------------------
(* Properties of validate_slots_node's missing and ambiguous lists *)

\* the date slot of the intent
DateSlot(intent) == IF intent = Some("TRAVEL") THEN "depart_date" ELSE "date"

\* the extractor gave no value for the slot (null, or an empty text)
RawAbsent(slots, slot) ==
    \/ Get(slots, slot) = None
    \/ slot \in {"location", "origin", "destination"} /\ Get(slots, slot) = Some(<<>>)
    \/ slot \in {"date", "depart_date"} /\ Get(slots, slot) = Some("")

-----------------------------------------------------------------------------
(* Properties of the window's expiry *)

\* C29: for a fresh key the expiry is applied in the same atomic step as the first
\* increment: whatever the interleaving of the calls on the key, and wherever a
\* caller stops, the store never holds a counter that was incremented and has no
\* expiry.
C29_ExpiryWithFirstIncrement ==
    \A k \in Keys : redis[k].count > 0 => redis[k].ttl # NO_EXPIRY

\* C30: the window is fixed: its expiry is set once, by the first call of the window,
\* and no later call, allowed or denied, sequential or concurrent, changes or extends
\* it; the counter is gone, and a caller allowed again, no later than window_seconds
\* after the first call of the window.
C30_ExpirySetOnce ==
    /\ [][\A k \in Keys :
            (redis[k].ttl > 0 /\ redis'[k].ttl > 0) => redis'[k].ttl <= redis[k].ttl]_vars
    /\ [](\A k \in Keys :
            (redis[k].ttl > 0 /\ windows[k].age # None)
                => redis[k].ttl + Val(windows[k].age) <= windows[k].window)

-----------------------------------------------------------------------------
(* Properties of the questions *)

GENERIC_PROMPTS == {"Could you clarify that detail, please?",
                    "I need more information to help you."}

PriorityOf(intent) == IF intent = Some("TRAVEL") THEN TRAVEL_PRIORITY ELSE WEATHER_PRIORITY
QuestionOf(intent, slot) ==
    IF intent = Some("TRAVEL") THEN travel_question(slot) ELSE weather_question(slot)

\* C31: every slot name validate_slots_node puts in missing or ambiguities is in the
\* intent's priority list and has a question text of its own, and no turn's
\* ask_question answers with one of the generic prompts.
C31_NoGenericPrompt ==
    /\ (visited # <<>> /\ Last(visited) \in {"validate_slots", "ask_question"})
          => \A slot \in SetOf(locals.missing) \cup SetOf(locals.ambiguities) :
                /\ InList(slot, PriorityOf(state.intent))
                /\ QuestionOf(state.intent, slot) \notin GENERIC_PROMPTS
    /\ (visited # <<>> /\ Last(visited) = "ask_question")
          => /\ state.final_response # None
             /\ Val(state.final_response) \notin GENERIC_PROMPTS
             /\ state.missing_slots # <<>>
             /\ Val(state.final_response) = QuestionOf(state.intent, state.missing_slots[1])

\* a TRAVEL turn with only the number of adults unusable is asked for it
C31_Witness ==
    /\ pc = "END"
    /\ Last(visited) = "ask_question"
    /\ state.intent = Some("TRAVEL")
    /\ locals.missing = <<"pax_adults">>
    /\ state.final_response = Some("How many adults are travelling?")

-----------------------------------------------------------------------------
(* Properties of the priority lists *)

\* C32: in a process that has started, the slot names of each priority list are the
\* slot fields of the intent's schema, in both directions (TRAVEL_PRIORITY and
\* TravelSlots, WEATHER_PRIORITY and WeatherSlots): a mismatch stops the start.
C32_PriorityMatchesSchema ==
    app = "up" => /\ SetOf(TRAVEL_PRIORITY) = SlotFields(TravelSlots)
                  /\ SetOf(WEATHER_PRIORITY) = SlotFields(WeatherSlots)

-----------------------------------------------------------------------------
(* Properties of the weather tool behind the gateway *)

\* the call of the tool, with the caches of the current state, runs a lookup that
\* fails with a ValueError
LookupFails(q, g, f) ==
    /\ wx.cache[wx_cache_key(q)] = None
    /\ \/ geo_cache_key(Val(q.location)) \notin wx.geo /\ IsValueError(g)
       \/ /\ geo_cache_key(Val(q.location)) \in wx.geo \/ g = "ok"
          /\ IsValueError(f)

\* call p of the gateway got an error report from the tool
GotErrorReport(c) ==
    /\ c.pc = "done"
    /\ c.native # None
    /\ Val(c.native).kind = "return"
    /\ Val(c.native).value.summary \in ERROR_SUMMARIES

\* C33: a geocoding or forecast lookup that fails with a domain error (ValueError)
\* does not make the weather tool raise: it returns a report whose summary starts with
\* "Error: "; call_tool returns that report as its validated output, with no error;
\* and the turn's response is rendered from it as from any report.
C33_DomainErrorIsAReport ==
    /\ [](\A q \in WxQueries, g \in GeocodeOutcomes, f \in FetchOutcomes :
            LookupFails(q, g, f)
                => LET r == WeatherTool_call(wx.cache, wx.geo, q, g, f) IN
                   /\ r.call.kind = "return"
                   /\ r.call.value.summary \in ERROR_SUMMARIES
                   /\ weather_tool_outcome(r).kind = "return")
    /\ [](\A p \in Callers :
            GotErrorReport(calls[p])
                => /\ calls[p].error = None
                   /\ calls[p].result = Some(Val(calls[p].native).value)
                   /\ InList("validated_out", calls[p].trace))
    /\ [][(pc = "call_tool.await" /\ pc' = "END" /\ GotErrorReport(calls[TurnCaller]))
            => LET report == Val(calls[TurnCaller].native).value IN
               state'.final_response =
                   Some(Join(report.location_label) \o " on " \o report.date \o ": "
                        \o report.summary \o ".")]_vars

\* the turn "weather in Toronto tomorrow" whose geocoding failed has answered with the
\* error report
C33_Witness ==
    /\ pc = "END"
    /\ Len(wx.history) = 1
    /\ wx.history[1].ran = <<"geocode_location", "geocode_request">>
    /\ wx.history[1].kind = "return"
    /\ state.final_response = Some("Toronto on today: Error: Location not found.")

-----------------------------------------------------------------------------
(* Properties of the slots call_tool is entered with *)

\* C34: whenever call_tool is entered, every required slot of the intent holds a
\* normalised value that is not null: for WEATHER a location that is not empty; for
\* TRAVEL an origin, a destination, a depart_date of the form YYYY-MM-DD and pax_adults
\* in 1..9.
C34_RequiredSlotsAtCallTool ==
    pc \in {"call_tool", "call_tool.await"}
        => /\ state.intent = Some("WEATHER")
                => ~FalsyWords(state.slots.location)
           /\ state.intent = Some("TRAVEL")
                => /\ ~FalsyWords(state.slots.origin)
                   /\ ~FalsyWords(state.slots.destination)
                   /\ state.slots.depart_date # None
                   /\ Val(state.slots.depart_date) \in ISO_TOKENS
                   /\ state.slots.pax_adults # None
                   /\ Val(state.slots.pax_adults) \in 1..9

\* a complete TRAVEL request at call_tool, its origin normalised to the IATA code
C34_Witness ==
    /\ pc = "call_tool"
    /\ state.intent = Some("TRAVEL")
    /\ state.slots.origin = Some(<<"LHR">>)
    /\ state.slots.destination = Some(<<"London">>)
    /\ state.slots.depart_date = Some("2025-06-01")
    /\ state.slots.pax_adults = Some(2)

-----------------------------------------------------------------------------
(* Properties of the TRAVEL turns *)

\* C35: with the heuristic extractor every TRAVEL turn ends in ask_question and
\* call_tool is never reached for TRAVEL: extraction leaves every TRAVEL slot null,
\* so origin, destination, depart_date and pax_adults are all missing.
C35_TravelAlwaysAsks ==
    state.intent = Some("TRAVEL")
        => /\ pc \notin {"call_tool", "call_tool.await"}
           /\ ~InList("call_tool", visited)
           /\ InList("extract_slots", visited)
                => \A slot \in DOMAIN state.slots : state.slots[slot] = None
           /\ InList("validate_slots", visited)
                => /\ locals.missing = <<"origin", "destination", "depart_date", "pax_adults">>
                   /\ locals.ask_slot # None
           /\ pc = "END" => Last(visited) = "ask_question"

\* a TRAVEL turn that has ended with the question about the departure date
C35_Witness ==
    /\ state.intent = Some("TRAVEL")
    /\ pc = "END"
    /\ visited = <<"setup_session", "route_intent", "extract_slots", "validate_slots",
                   "ask_question">>
    /\ locals.ask_slot = Some("depart_date")
    /\ last_message(state) = <<"Find", "flights", "from", "London", "to", "Toronto">>

-----------------------------------------------------------------------------
(* Properties of the quota a call of a tool takes *)

\* the calls of call_tool that are past the allow-list and the validation of the input
\* and past the rate limit as well
PastRateLimit ==
    {p \in Callers : /\ calls[p].op = "call_tool"
                     /\ InList("validated_in", calls[p].trace)
                     /\ calls[p].pc \in {"execute", "done"}}

\* C36, as stated: every call of call_tool that passes the allow-list and the input
\* validation increments the counter of its (tool, principal) exactly once.
C36_EveryCallIncrements ==
    \A p \in PastRateLimit : Occurrences("incr", calls[p].trace) = 1

QuotaTakenOnce ==
    \A p \in PastRateLimit :
        LET c == calls[p] IN
        /\ Occurrences("incr", c.trace) = IF c.limit > 0 THEN 1 ELSE 0
        /\ c.limit > 0
            => /\ c.count > c.limit <=> (c.pc = "done" /\ c.error = Some("RateLimitError"))
               /\ c.error = Some("RateLimitError") => ~InList("executed", c.trace)
               /\ InList("executed", c.trace) => Pos("incr", c.trace) < Pos("executed", c.trace)

\* the tool's step of a call, whatever its outcome, leaves the counters as they are, and
\* the increment of a call adds one to the counter of the call's key and to no other
QuotaKept ==
    \A p \in Callers :
        /\ (calls[p].pc = "execute" /\ calls'[p].pc = "done") => redis' = redis
        /\ (calls[p].pc = "pipeline" /\ calls'[p].pc # "pipeline")
            => /\ redis'[calls[p].key].count = redis[calls[p].key].count + 1
               /\ \A k \in Keys \ {calls[p].key} : redis'[k] = redis[k]

\* C36, amended: with a positive tool limit, every call of call_tool that passes the
\* allow-list and the input validation increments the counter of its (tool, principal)
\* exactly once, before the tool runs, and nothing gives the unit back: a call served
\* from the tool's cache, a call whose tool raises and a call whose output fails
\* validation leave the counter incremented, and a call whose count is beyond the limit
\* is denied without the tool being run, cached result or not.  With a limit of zero or
\* below no call increments anything.
C36_QuotaTakenOncePerCall == []QuotaTakenOnce /\ [][QuotaKept]_vars

\* the second call for the same place and date was served from the cache and was counted
C36_Witness ==
    /\ calls[TurnCaller].pc = "done"
    /\ calls[TurnCaller].result # None
    /\ calls[TurnCaller].limit > 0
    /\ calls[TurnCaller].count = 2
    /\ redis[calls[TurnCaller].key].count = 2
    /\ wx.history # <<>>
    /\ Last(wx.history).ran = <<>>

-----------------------------------------------------------------------------
(* Properties of the route frame *)

\* C37: on an SSE response and on a WebSocket, the intent of the route frame of a turn
\* is the intent the turn itself uses, the one of its "[intent:...]" marker, for every
\* message and with the keyword router as with the LLM classifier.
C37_RouteFrameIsTurnIntent ==
    (sock.pc = "turn" /\ state.intent # None)
        => /\ FramesOf(sock.received)[1] = route_frame(sock.received, Val(state.intent))
           /\ \A i \in 1..Len(out) :
                 out[i] \in IntentMarkers
                    => out[i] = "[intent:" \o FramesOf(sock.received)[1].text \o "]"

-----------------------------------------------------------------------------
(* Properties of the order of moderation, chat rate limit and turn *)

\* moderation is on and check_message does not allow the message
Blocked(message) == settings.moderation_enabled /\ ~check_message(message)

ChatKeys == {RlChatKey(SockSession)} \cup {RlWhatsappKey(extract_phone_number(f)) : f \in WhatsappIds}

\* a request is at the chat rate limit, or in its turn, only with a message that passed
\* moderation; a turn runs only inside a request, and the tool is called only in a turn
ModeratedFirst ==
    /\ sock.pc \in {"rate_limit", "post.rate_limit", "turn"} => ~Blocked(sock.message)
    /\ hook.pc \in {"rate_limit", "turn"} => ~Blocked(hook.Body)
    /\ pc # "idle" => (sock.pc = "turn" \/ hook.pc = "turn")
    /\ sock.transport = "post" => pc = "idle"
    /\ calls[TurnCaller].pc # "idle" => pc = "call_tool.await"

LimitedBeforeTurn ==
    \* a turn starts only from an allowed outcome of the chat rate limit
    /\ (pc = "idle" /\ pc' # "idle")
        => /\ sock.pc = "rate_limit" \/ hook.pc = "rate_limit"
           /\ calls[SockCaller].pc = "done"
           /\ Val(calls[SockCaller].result).allowed
    \* the step that takes a blocked message touches neither the store nor a turn
    /\ (sock'.received > sock.received /\ Blocked(sock'.message))
        => (redis' = redis /\ calls' = calls /\ UNCHANGED turnVars)
    /\ (hook.pc = "idle" /\ hook'.pc # "idle" /\ Blocked(hook'.Body))
        => (redis' = redis /\ calls' = calls /\ UNCHANGED turnVars)
    \* a counter is incremented for a request at its rate limit, or for the tool call of
    \* a turn
    /\ \A k \in Keys :
         redis'[k].count > redis[k].count
            => IF k \in ChatKeys
               THEN \/ sock.pc \in {"rate_limit", "post.rate_limit"} /\ ~Blocked(sock.message)
                    \/ hook.pc = "rate_limit" /\ ~Blocked(hook.Body)
               ELSE pc = "call_tool.await"
    \* the answer to a denied message is sent without a turn
    /\ (calls[SockCaller].pc = "done" /\ calls'[SockCaller].pc = "idle"
            /\ ~Val(calls[SockCaller].result).allowed)
        => (pc' = "idle" /\ UNCHANGED turnVars /\ redis' = redis
            /\ calls'[TurnCaller] = calls[TurnCaller])

\* C38: in POST /chat, GET /chat/stream, the WebSocket and the WhatsApp webhook
\* moderation runs before the chat rate limit and both before the turn: a blocked message
\* leaves the rate-limit counter of its session as it is, and a message that is blocked
\* or rate-limited never reaches handle_turn, so that nothing is classified, no tool is
\* called and no tool counter is incremented for it.
C38_ModerationLimitTurn == []ModeratedFirst /\ [][LimitedBeforeTurn]_vars

\* the second message of a WebSocket was blocked after the first was counted
C38_Witness ==
    /\ sock.transport = "ws"
    /\ sock.received = 2
    /\ Blocked(sock.message)
    /\ sock.frames[Len(sock.frames)] = error_frame(2, "Blocked by safety policy")
    /\ redis[RlChatKey(SockSession)].count = 1
    /\ pc = "idle"

-----------------------------------------------------------------------------
(* Properties of the limit *)

\* the calls whose rate limit has been decided
Limited == {p \in Callers : calls[p].outcome # None}

LimitSwitch ==
    \A p \in Limited :
        LET c == calls[p]
            o == Val(c.outcome)
        IN /\ c.limit <= 0
                => /\ o = RateLimitOutcome(TRUE, c.limit, c.limit, c.window)
                   /\ ~InList("incr", c.trace)
                   /\ c.op = "call_tool" => c.error # Some("RateLimitError")
           /\ c.limit > 0
                => /\ Occurrences("incr", c.trace) = 1
                   /\ o.allowed <=> c.count <= c.limit
                   /\ o.remaining = (IF c.limit - c.count > 0 THEN c.limit - c.count ELSE 0)
                   /\ o.limit = c.limit

\* the step of a call whose limit is zero or below leaves the store as it is
StoreUntouched ==
    \A p \in Callers :
        (calls'[p] # calls[p] /\ calls'[p].pc # "idle" /\ calls'[p].limit <= 0)
            => redis' = redis

\* C39: a limit of zero or below switches the rate limit off: every call of
\* fixed_window_allow returns allowed = true and neither reads nor writes the store;
\* with a limit above zero every outcome has allowed exactly when the count after the
\* increment is at most the limit, and remaining = max(0, limit - count).
C39_ZeroLimitDisables == []LimitSwitch /\ [][StoreUntouched]_vars

\* a call of the tool went through with a limit of zero, the store empty
C39_Witness ==
    /\ calls[DirectCaller].op = "call_tool"
    /\ calls[DirectCaller].pc = "done"
    /\ calls[DirectCaller].limit = 0
    /\ calls[DirectCaller].result # None
    /\ Val(calls[DirectCaller].outcome).allowed
    /\ \A k \in Keys : redis[k] = NoEntry

====
